---- MODULE Spec2Model ----
(***************************************************************************)
(* State-machine model of the wallet monitor of aion-dap                   *)
(* (client/src/services/RealTimeMonitor.js) and of the collaborators it    *)
(* calls.  A JavaScript class keeps the LAST definition of a method that   *)
(* is defined twice, so startPolling and handleSellDetected are modelled   *)
(* from their second definitions (lines 255-259 and 308-364).  Every       *)
(* `await` of an async method is a point where other handlers may run, so  *)
(* one checkWalletChanges call is a small process with a program counter.  *)
(* EnhancedRealTimeMonitor (client/src/services/EnhancedRealTimeMonitor.js)*)
(* is modelled on the same variables, in specifications of its own.        *)
(***************************************************************************)
EXTENDS Integers, Sequences, FiniteSets, Bags, TLC

\* ------------------------------------------------------------------ bounds
\* The clock stops at MaxTime timer periods.
MaxTime == 2
\* Longest wallet list handed to initialize / startMonitoringLegacy.
MaxWallets == 2
\* checkWalletChanges calls that may be in flight at the same time.
MaxInFlight == 1
\* The number of callbacks a subscriber set holds at most.
MaxSubscribers == 2
\* The number of calls in flight when the status is read.
MaxStatusInFlight == 2
\* The number of timers startTransactionMonitoring leaves behind.
MaxTimers == 2
\* The greatest alertCount of a wallet.
MaxAlerts == 1

\* ------------------------------------------------------- JavaScript values
\* lastBalance / lastChecked hold null until the first observation.
Null == -1
\* parseFloat of something that is no number.
NaN == -2
\* this.monitorInterval = null: no timer handle.
NoTimer == 0
\* this.websocketConnection = null: no WebSocket.
NoSocket == 0
\* Math.max() of no arguments.
NegInfinity == -3
\* undefined / null / '' where a string is expected (all falsy).
Undefined == "undefined"

IsNum(x) == x >= 0

\* ------------------------------------------------------------ input values
Addresses == {"0xA", "0xa", "0xB"}
\* Balances a provider can report; 1000 -> 990 is a drop of exactly 1 %.
Balances == {0, 950, 990, 1000}

\* String.prototype.toLowerCase on the addresses of the model.
toLowerCase(a) == IF a = "0xA" THEN "0xa" ELSE IF a = "0xB" THEN "0xb" ELSE a

\* One element of a `wallets` argument: null, or an object whose address may
\* be missing.
NullWallet == [isNull |-> TRUE, address |-> Undefined]
WalletInputs ==
    {NullWallet} \cup {[isNull |-> FALSE, address |-> a] : a \in Addresses \cup {Undefined}}

RECURSIVE SeqsUpTo(_, _)
SeqsUpTo(S, n) ==
    IF n = 0 THEN {<<>>}
    ELSE LET shorter == SeqsUpTo(S, n - 1)
         IN  shorter \cup {Append(s, x) : s \in {t \in shorter : Len(t) = n - 1}, x \in S}

NotAnArray == [isArray |-> FALSE, items |-> <<>>]
Array(items) == [isArray |-> TRUE, items |-> items]

\* The `wallets` arguments: every array of at most MaxWallets elements and
\* something that is no array.
WalletArgs == {Array(s) : s \in SeqsUpTo(WalletInputs, MaxWallets)} \cup {NotAnArray}

\* The { tokenAddress, blockchain } a caller passes: both, or one missing.
TokenArgs ==
    {[token |-> "0xT", network |-> "ethereum"], [token |-> Undefined, network |-> "ethereum"],
     [token |-> "0xT", network |-> Undefined]}

\* ------------------------------------------------------------------- state
VARIABLES
    tokenAddress,       \* this.tokenAddress
    blockchain,         \* this.blockchain
    monitoredWallets,   \* this.monitoredWallets: key -> wallet object (heap index)
    heap,               \* the wallet objects that are still referenced, by index
    isMonitoring,       \* this.isMonitoring
    monitorInterval,    \* this.monitorInterval: a timer handle or NoTimer
    intervals,          \* the interval timers of the runtime that are active
    calls,              \* checkWalletChanges calls in flight (a bag)
    alertSubscribers,   \* this.alertSubscribers
    updateSubscribers,  \* this.updateSubscribers
    websocketConnection, \* EnhancedRealTimeMonitor: this.websocketConnection
    sockets,            \* the WebSocket objects created, with their readyState
    activityIntervals,  \* the active timers of startTransactionMonitoring
    now,                \* Date.now(), in timer periods (at most MaxTime)
    ev                  \* the last operation: its name, inputs and result

\* What only EnhancedRealTimeMonitor has.
enhancedVars == <<websocketConnection, sockets, activityIntervals>>

vars ==
    <<tokenAddress, blockchain, monitoredWallets, heap, isMonitoring, monitorInterval,
      intervals, calls, alertSubscribers, updateSubscribers, enhancedVars, now, ev>>

EmptyMap == [k \in {} |-> 0]

\* The record of the last operation.  oid/prev/obs describe a step of a wallet
\* check: the wallet object, its lastBalance before the step, the balance
\* parsed.  net and posts count the network calls and the posts to alert sinks
\* the step issued, notified the alerts the step handed to notifySubscribers
\* (each with the subscribers called).  wallets is the argument of a
\* populating call, ret what the balance request of a fetch step returned,
\* timer the interval handle the operation set up (NoTimer: none).  initialized
\* is carried from operation to operation: whether initialize was ever called.
\* stopped is the timer handle the operation cleared (NoTimer: none), cleared
\* the number of map entries it removed with monitoredWallets.clear(), updated
\* the wallet-update callbacks it invoked, in order, status what getStatus()
\* returned, analysis the calls of WalletAnalyticsService it stands for (each
\* with its arguments, the providers' answers and what it returned).
NoReturn == [kind |-> "none", val |-> 0, observed |-> FALSE]
Ev(op, result) ==
    [op |-> op, result |-> result, oid |-> 0, prev |-> Null, obs |-> Null,
     net |-> 0, posts |-> 0, notified |-> <<>>, wallets |-> NotAnArray,
     ret |-> NoReturn, timer |-> NoTimer, initialized |-> ev.initialized,
     stopped |-> NoTimer, cleared |-> 0, updated |-> <<>>, status |-> <<>>,
     analysis |-> <<>>]
EvArgs(op, result, wallets) ==
    [op |-> op, result |-> result, oid |-> 0, prev |-> Null, obs |-> Null,
     net |-> 0, posts |-> 0, notified |-> <<>>, wallets |-> wallets,
     ret |-> NoReturn, timer |-> NoTimer, initialized |-> ev.initialized,
     stopped |-> NoTimer, cleared |-> 0, updated |-> <<>>, status |-> <<>>,
     analysis |-> <<>>]
EvCheck(op, result, oid, prev, obs, net, posts) ==
    [op |-> op, result |-> result, oid |-> oid, prev |-> prev, obs |-> obs,
     net |-> net, posts |-> posts, notified |-> <<>>, wallets |-> NotAnArray,
     ret |-> NoReturn, timer |-> NoTimer, initialized |-> ev.initialized,
     stopped |-> NoTimer, cleared |-> 0, updated |-> <<>>, status |-> <<>>,
     analysis |-> <<>>]

\* Map.prototype.set
MapSet(map, key, oid) ==
    [k \in DOMAIN map \cup {key} |-> IF k = key THEN oid ELSE map[k]]

\* Array.from(this.monitoredWallets.values())
MapValues(map) == {map[k] : k \in DOMAIN map}

\* A new object gets an index no object has.
NewOid(hp) == CHOOSE o \in 1..(Cardinality(DOMAIN hp) + 1) : o \notin DOMAIN hp
Allocate(hp, obj) == [o \in DOMAIN hp \cup {NewOid(hp)} |-> IF o \in DOMAIN hp THEN hp[o] ELSE obj]

\* The runtime drops the objects neither the map nor a call in flight refers to.
Collect(hp, map, cs) ==
    [o \in DOMAIN hp \cap (MapValues(map) \cup {c.oid : c \in BagToSet(cs)}) |-> hp[o]]

\* The object literal stored for one wallet: the input's own fields, then the
\* monitor's fields, which start empty.
NewWallet(wallet, token, network) ==
    [address |-> wallet.address, tokenAddress |-> token, network |-> network,
     lastBalance |-> Null, lastChecked |-> Null, alertCount |-> 0, totalVolumeSold |-> 0]

\* constructor()
InitEv ==
    [op |-> "constructor", result |-> "ok", oid |-> 0, prev |-> Null, obs |-> Null,
     net |-> 0, posts |-> 0, notified |-> <<>>, wallets |-> NotAnArray,
     ret |-> NoReturn, timer |-> NoTimer, initialized |-> FALSE,
     stopped |-> NoTimer, cleared |-> 0, updated |-> <<>>, status |-> <<>>,
     analysis |-> <<>>]

\* The monitor as its constructor leaves it.
Constructed ==
    /\ tokenAddress = Undefined
    /\ blockchain = Undefined
    /\ monitoredWallets = EmptyMap
    /\ heap = EmptyMap
    /\ isMonitoring = FALSE
    /\ monitorInterval = NoTimer
    /\ intervals = {}
    /\ calls = EmptyBag
    /\ alertSubscribers = <<>>
    /\ updateSubscribers = <<>>
    /\ websocketConnection = NoSocket
    /\ sockets = EmptyMap
    /\ activityIntervals = {}
    /\ now = 0

Init == Constructed /\ ev = InitEv

\* ------------------------------------------------------------- initialize
\* if (!wallet || !wallet.address): the wallets the loop skips.
IsInvalidWallet(wallet) == wallet.isNull \/ wallet.address = Undefined

\* The key under which initialize stores a wallet.
InitializeKey(wallet) == toLowerCase(wallet.address)

\* for (const wallet of wallets) { ... this.monitoredWallets.set(...) }, from
\* item i on: the map and the heap it leaves.
RECURSIVE InitializeLoop(_, _, _, _, _, _)
InitializeLoop(items, i, map, hp, token, network) ==
    IF i > Len(items) THEN [map |-> map, heap |-> hp]
    ELSE IF IsInvalidWallet(items[i])
    THEN InitializeLoop(items, i + 1, map, hp, token, network)
    ELSE InitializeLoop(items, i + 1,
                        MapSet(map, InitializeKey(items[i]), NewOid(hp)),
                        Allocate(hp, NewWallet(items[i], token, network)),
                        token, network)

\* What initialize leaves in the map after this.monitoredWallets.clear().
InitializeResult(wallets, token, network) ==
    IF ~wallets.isArray \/ wallets.items = <<>>
    THEN [map |-> EmptyMap, heap |-> heap]
    ELSE InitializeLoop(wallets.items, 1, EmptyMap, Collect(heap, EmptyMap, calls),
                        token, network)

\* A variant of InitializeReturn without the Array.isArray check.
InitializeReturnUnchecked(wallets) == "true"

\* What initialize returns: it throws for a non-array, true otherwise.
InitializeReturn(wallets) == IF ~wallets.isArray THEN "throw" ELSE "true"

\* async initialize({ tokenAddress, blockchain, wallets })
Initialize(token, network, wallets) ==
    LET r == InitializeResult(wallets, token, network)
    IN  /\ tokenAddress' = token
        /\ blockchain' = network
        /\ monitoredWallets' = r.map
        /\ heap' = Collect(r.heap, r.map, calls)
        /\ ev' = [EvArgs("initialize", InitializeReturn(wallets), wallets)
                      EXCEPT !.initialized = TRUE]
        /\ UNCHANGED <<isMonitoring, monitorInterval, intervals, calls,
                       alertSubscribers, updateSubscribers, now, enhancedVars>>

\* --------------------------------------------------- start / stop polling
\* setInterval: a handle no active timer has.
NewTimer(active) == CHOOSE t \in 1..(Cardinality(active) + 1) : t \notin active

\* startPolling() (second definition): the timers active afterwards, given
\* the timers active before.  The earlier handle is overwritten, not cleared.
startPolling(active) == active \cup {NewTimer(active)}

\* A variant of StartMonitoringReturn without the check of tokenAddress and
\* blockchain.
StartMonitoringReturnUnchecked ==
    IF DOMAIN monitoredWallets = {} THEN "false" ELSE "true"

\* startMonitoring(): "throw", "false" (nothing to monitor), "true".
StartMonitoringReturn ==
    IF tokenAddress = Undefined \/ blockchain = Undefined THEN "throw"
    ELSE IF DOMAIN monitoredWallets = {} THEN "false"
    ELSE "true"

\* A variant of StartMonitoringStarts without `if (this.isMonitoring) return true`.
StartMonitoringStartsAgain == StartMonitoringReturn = "true"

\* Whether startMonitoring() goes on to start polling.
StartMonitoringStarts == StartMonitoringReturn = "true" /\ ~isMonitoring

\* async startMonitoring()
StartMonitoring ==
    /\ IF StartMonitoringStarts
       THEN /\ isMonitoring' = TRUE
            /\ monitorInterval' = NewTimer(intervals)
            /\ intervals' = startPolling(intervals)
       ELSE UNCHANGED <<isMonitoring, monitorInterval, intervals>>
    /\ ev' = [Ev("startMonitoring", StartMonitoringReturn)
                  EXCEPT !.timer = IF StartMonitoringStarts THEN NewTimer(intervals)
                                   ELSE NoTimer]
    /\ UNCHANGED <<tokenAddress, blockchain, monitoredWallets, heap, calls,
                   alertSubscribers, updateSubscribers, now, enhancedVars>>

\* A variant of StopMonitoringIntervals that drops the handle without
\* clearInterval.
StopMonitoringIntervalsKept == intervals

\* clearInterval(this.monitorInterval), guarded by if (this.monitorInterval).
StopMonitoringIntervals ==
    IF monitorInterval # NoTimer THEN intervals \ {monitorInterval} ELSE intervals

\* stopMonitoring()
StopMonitoring ==
    /\ intervals' = StopMonitoringIntervals
    /\ monitorInterval' = NoTimer
    /\ isMonitoring' = FALSE
    /\ monitoredWallets' = EmptyMap
    /\ heap' = Collect(heap, EmptyMap, calls)
    /\ ev' = [Ev("stopMonitoring", "ok")
                  EXCEPT !.stopped = monitorInterval,
                         !.cleared = Cardinality(DOMAIN monitoredWallets)]
    /\ UNCHANGED <<tokenAddress, blockchain, calls, alertSubscribers,
                   updateSubscribers, now, enhancedVars>>

\* -------------------------------------------------- startMonitoringLegacy
\* wallets.forEach(wallet => this.monitoredWallets.set(wallet.address, ...)),
\* from item i on.  Reading .address of a null element throws; the entries set
\* before it stay.
RECURSIVE LegacyLoop(_, _, _, _, _, _)
LegacyLoop(items, i, map, hp, token, network) ==
    IF i > Len(items) THEN [map |-> map, heap |-> hp, threw |-> FALSE]
    ELSE IF items[i].isNull THEN [map |-> map, heap |-> hp, threw |-> TRUE]
    ELSE LegacyLoop(items, i + 1,
                    MapSet(map, items[i].address, NewOid(hp)),
                    Allocate(hp, NewWallet(items[i], token, network)),
                    token, network)

\* The map startMonitoringLegacy starts from: stopMonitoring() ran first when
\* the monitor was monitoring.
LegacyStartMap == IF isMonitoring THEN EmptyMap ELSE monitoredWallets

\* startMonitoringLegacy(wallets, tokenAddress, network)
StartMonitoringLegacy(wallets, token, network) ==
    LET stopped == IF isMonitoring THEN StopMonitoringIntervals ELSE intervals
        r == IF wallets.isArray
             THEN LegacyLoop(wallets.items, 1, LegacyStartMap,
                             Collect(heap, LegacyStartMap, calls), token, network)
             ELSE [map |-> LegacyStartMap, heap |-> heap, threw |-> FALSE]
        starts == wallets.isArray /\ ~r.threw
    IN  /\ monitoredWallets' = r.map
        /\ heap' = Collect(r.heap, r.map, calls)
        /\ isMonitoring' = starts
        /\ monitorInterval' = IF starts THEN NewTimer(stopped)
                              ELSE IF isMonitoring THEN NoTimer ELSE monitorInterval
        /\ intervals' = IF starts THEN startPolling(stopped) ELSE stopped
        /\ ev' = [EvArgs("startMonitoringLegacy",
                         IF ~wallets.isArray THEN "false"
                         ELSE IF r.threw THEN "throw" ELSE "true",
                         wallets)
                      EXCEPT !.timer = IF starts THEN NewTimer(stopped) ELSE NoTimer]
        /\ UNCHANGED <<tokenAddress, blockchain, calls, alertSubscribers,
                       updateSubscribers, now, enhancedVars>>

\* ------------------------------------------------------------------ status
\* Math.max(...values) of at least one number.
MathMax(values) == CHOOSE m \in values : \A v \in values : v <= m

\* w.lastChecked || 0
LastCheckedOrZero(wallet) == IF wallet.lastChecked = Null THEN 0 ELSE wallet.lastChecked

\* A variant of StatusLastChecked that takes the first wallet's time.
StatusLastCheckedOfOne(wallets) ==
    IF wallets # {}
    THEN LastCheckedOrZero(heap[CHOOSE o \in wallets : \A q \in wallets : o <= q])
    ELSE 0

\* wallets.length > 0 ? Math.max(...wallets.map(w => w.lastChecked || 0)) : 0
StatusLastChecked(wallets) ==
    IF wallets # {} THEN MathMax({LastCheckedOrZero(heap[o]) : o \in wallets}) ELSE 0

\* The object getStatus() returns.
getStatus ==
    [isMonitoring |-> isMonitoring,
     walletCount |-> Cardinality(DOMAIN monitoredWallets),
     subscriberCount |-> Len(alertSubscribers),
     connected |-> isMonitoring,
     lastChecked |-> StatusLastChecked(MapValues(monitoredWallets))]

\* getStatus()
GetStatus ==
    /\ ev' = [Ev("getStatus", "ok") EXCEPT !.status = <<getStatus>>]
    /\ UNCHANGED <<tokenAddress, blockchain, monitoredWallets, heap, isMonitoring,
                   monitorInterval, intervals, calls, alertSubscribers,
                   updateSubscribers, enhancedVars, now>>

\* ------------------------------------------------------------- subscribers
\* A Set keeps its elements in insertion order; it is modelled as the list of
\* its entries.  During a forEach a deleted entry leaves an empty slot behind,
\* so that the position of the iteration is not shifted.
EmptySlot == "empty"

\* The elements of a list.
Range(s) == {s[i] : i \in 1..Len(s)}

\* A variant of SetAdd that appends without looking for the element.
SetAddAgain(s, cb) == Append(s, cb)

\* set.add(cb): appended unless it is an element already.
SetAdd(s, cb) == IF cb \in Range(s) THEN s ELSE Append(s, cb)

\* set.delete(cb): the entry becomes an empty slot; no effect when absent.
SetDelete(s, cb) == [i \in 1..Len(s) |-> IF s[i] = cb THEN EmptySlot ELSE s[i]]

\* The entries of a set without the empty slots.
Compact(s) == SelectSeq(s, LAMBDA x : x # EmptySlot)

\* What a subscriber callback does when it is invoked: it returns, it throws,
\* it calls the function its own registration returned, it calls the one cb1's
\* registration returned, it registers cb2, or it unsubscribes and registers
\* itself again.
Callbacks == {"cb1", "cb2", "cbThrows", "cbLeaves", "cbRemoves", "cbAdds", "cbRejoins"}

\* callback(alertData): the entries of the set afterwards, and whether it threw.
Invoke(cb, s) ==
    CASE cb = "cbThrows" -> [slots |-> s, threw |-> TRUE]
      [] cb = "cbLeaves" -> [slots |-> SetDelete(s, cb), threw |-> FALSE]
      [] cb = "cbRemoves" -> [slots |-> SetDelete(s, "cb1"), threw |-> FALSE]
      [] cb = "cbAdds" -> [slots |-> SetAdd(s, "cb2"), threw |-> FALSE]
      [] cb = "cbRejoins" -> [slots |-> SetAdd(SetDelete(s, cb), cb), threw |-> FALSE]
      [] OTHER -> [slots |-> s, threw |-> FALSE]

\* The number of invocations after which a forEach is taken not to end: more
\* than any forEach that ends can make on a set of MaxSubscribers callbacks.
MaxVisits == 2 * (MaxSubscribers + 1)

\* this.alertSubscribers.forEach(callback => { try { callback(alertData) }
\* catch (error) { ... } }): the entries are visited by position, the entries
\* appended meanwhile included, the empty slots skipped; catches tells whether
\* the try/catch is there, without it the first throw ends the loop.
RECURSIVE forEach(_, _, _, _, _)
forEach(s, index, invoked, fuel, catches) ==
    IF index > Len(s) THEN [slots |-> s, invoked |-> invoked, complete |-> TRUE]
    ELSE IF s[index] = EmptySlot THEN forEach(s, index + 1, invoked, fuel, catches)
    ELSE IF fuel = 0 THEN [slots |-> s, invoked |-> invoked, complete |-> FALSE]
    ELSE LET r == Invoke(s[index], s)
         IN  IF r.threw /\ ~catches
             THEN [slots |-> r.slots, invoked |-> Append(invoked, s[index]),
                   complete |-> TRUE]
             ELSE forEach(r.slots, index + 1, Append(invoked, s[index]),
                          fuel - 1, catches)

\* A variant of notifySubscribers without the try/catch around the callback.
notifySubscribersUncaught(subscribers) == forEach(subscribers, 1, <<>>, MaxVisits, FALSE)

\* notifySubscribers(alertData): every callback of the set is called, each in
\* its own try/catch.
notifySubscribers(subscribers) == forEach(subscribers, 1, <<>>, MaxVisits, TRUE)

\* subscribe(callback) / onAlert(callback); MaxSubscribers bounds the set.
Subscribe(cb) ==
    /\ cb \in Range(alertSubscribers) \/ Len(alertSubscribers) < MaxSubscribers
    /\ alertSubscribers' = SetAdd(alertSubscribers, cb)
    /\ ev' = Ev("subscribe", cb)
    /\ UNCHANGED <<tokenAddress, blockchain, monitoredWallets, heap, isMonitoring,
                   monitorInterval, intervals, calls, updateSubscribers, now, enhancedVars>>

\* The function subscribe returned, called: this.alertSubscribers.delete(callback).
\* It may be called again, when the callback is no longer in the set.
Unsubscribe(cb) ==
    /\ alertSubscribers' = Compact(SetDelete(alertSubscribers, cb))
    /\ ev' = Ev("unsubscribe", cb)
    /\ UNCHANGED <<tokenAddress, blockchain, monitoredWallets, heap, isMonitoring,
                   monitorInterval, intervals, calls, updateSubscribers, now, enhancedVars>>

\* The callbacks registered for wallet updates.
UpdateCallbacks == {"cb1", "cb2", "cbThrows"}

\* onWalletUpdate(callback)
OnWalletUpdate(cb) ==
    /\ cb \in Range(updateSubscribers) \/ Len(updateSubscribers) < MaxSubscribers
    /\ updateSubscribers' = SetAdd(updateSubscribers, cb)
    /\ ev' = Ev("onWalletUpdate", cb)
    /\ UNCHANGED <<tokenAddress, blockchain, monitoredWallets, heap, isMonitoring,
                   monitorInterval, intervals, calls, alertSubscribers, now, enhancedVars>>

\* The function onWalletUpdate returned, called:
\* this.updateSubscribers.delete(callback).
OffWalletUpdate(cb) ==
    /\ updateSubscribers' = Compact(SetDelete(updateSubscribers, cb))
    /\ ev' = Ev("offWalletUpdate", cb)
    /\ UNCHANGED <<tokenAddress, blockchain, monitoredWallets, heap, isMonitoring,
                   monitorInterval, intervals, calls, alertSubscribers, now, enhancedVars>>

\* notifyWalletUpdate(walletData): every callback of the set is called, each in
\* its own try/catch.
notifyWalletUpdate(subscribers) == forEach(subscribers, 1, <<>>, MaxVisits, TRUE)

\* notifyWalletUpdate(walletData) called on the monitor.  No method of the
\* class calls it.  A forEach that does not end does not return.
NotifyWalletUpdate ==
    LET n == notifyWalletUpdate(updateSubscribers)
    IN  /\ n.complete
        /\ updateSubscribers' = Compact(n.slots)
        /\ ev' = [Ev("notifyWalletUpdate", "ok") EXCEPT !.updated = n.invoked]
        /\ UNCHANGED <<tokenAddress, blockchain, monitoredWallets, heap, isMonitoring,
                       monitorInterval, intervals, calls, alertSubscribers, now, enhancedVars>>

\* ------------------------------------------------------------- poll cycle
\* One checkWalletChanges call in flight.  pc names the await it is suspended
\* at; cur is currentBalanceNum, amt the amountSold handed to
\* handleSellDetected, tx the sellTx found, alert the alertData once built
\* (a sequence of length 0 or 1), sinks the outcomes of the posts so far.
NoTx == [from |-> Undefined, age |-> 0, hash |-> "none"]
NewCall(oid) ==
    [oid |-> oid, pc |-> "fetch", cur |-> Null, amt |-> 0, tx |-> NoTx, usd |-> 0,
     alert |-> <<>>, sinks |-> <<>>]

InFlight == BagToSet(calls)

RECURSIVE BagOfCalls(_)
BagOfCalls(oids) ==
    IF oids = {} THEN EmptyBag
    ELSE LET o == CHOOSE x \in oids : TRUE
         IN  SetToBag({NewCall(o)}) (+) BagOfCalls(oids \ {o})

\* checkAllWallets(): checkWalletChanges is called for every wallet of the
\* map; each call runs up to its first await.
checkAllWallets == calls (+) BagOfCalls(MapValues(monitoredWallets))

\* The interval callback of startPolling (second definition), while at most
\* limit calls are in flight afterwards.
TickUpTo(limit) ==
    /\ intervals # {}
    /\ BagCardinality(checkAllWallets) <= limit
    /\ now' = IF now < MaxTime THEN now + 1 ELSE now
    /\ calls' = checkAllWallets
    /\ ev' = [Ev("tick", "ok") EXCEPT !.net = Cardinality(MapValues(monitoredWallets))]
    /\ UNCHANGED <<tokenAddress, blockchain, monitoredWallets, heap, isMonitoring,
                   monitorInterval, intervals, alertSubscribers, updateSubscribers, enhancedVars>>

Tick == TickUpTo(MaxInFlight)

\* WalletAnalyticsService.getTokenBalance (part_001): what the provider's reply
\* becomes.  A reply without data and a failed request both become 0.
getTokenBalance(reply) ==
    IF reply.ok /\ reply.hasData THEN reply.balance ELSE 0

ProviderReplies ==
    {[ok |-> TRUE, hasData |-> TRUE, balance |-> b] : b \in Balances}
        \cup {[ok |-> TRUE, hasData |-> FALSE, balance |-> 0],
              [ok |-> FALSE, hasData |-> FALSE, balance |-> 0]}

\* What `await WalletAnalyticsService.getTokenBalance(...)` can yield at the
\* call site: an exception (the call site invokes the method on the class
\* itself, where part_001 does not define it), the bare number getTokenBalance
\* returns, null, or an object with a `formatted` field, which is what the call
\* site reads.  observed tells whether the provider reported the balance.
BalanceReturns ==
    {[kind |-> "throw", val |-> 0, observed |-> FALSE],
     [kind |-> "null", val |-> 0, observed |-> FALSE]}
        \cup {[kind |-> "number", val |-> getTokenBalance(r),
               observed |-> r.ok /\ r.hasData] : r \in ProviderReplies}
        \cup {[kind |-> "object", val |-> b, observed |-> b # NaN] : b \in Balances \cup {NaN}}

\* !currentBalance is false
IsTruthy(ret) ==
    \/ ret.kind = "object"
    \/ ret.kind = "number" /\ ret.val # 0

\* parseFloat(currentBalance.formatted): a number has no `formatted`.
parseFormatted(ret) == IF ret.kind = "object" THEN ret.val ELSE NaN

\* The literal of `changePercentage > 1`.
SellThresholdPercent == 1

\* A variant of IsSell that counts a drop of exactly the threshold as a sell.
IsSellInclusive(last, current) ==
    /\ IsNum(last) /\ IsNum(current)
    /\ last - current > 0
    /\ (last - current) * 100 >= SellThresholdPercent * last

\* balanceChange > 0 && changePercentage > 1, with
\* balanceChange = last - current and changePercentage = balanceChange / last * 100.
\* Every comparison with NaN is false; last > 0 whenever balanceChange > 0.
IsSell(last, current) ==
    /\ IsNum(last) /\ IsNum(current)
    /\ last - current > 0
    /\ (last - current) * 100 > SellThresholdPercent * last

\* A variant of FetchOutcome without the first-observation branch: the first
\* balance is compared like any other.
FetchOutcomeWithoutBaseline(last, ret) ==
    IF ret.kind = "throw" THEN "error"
    ELSE IF ~IsTruthy(ret) THEN "skipped"
    ELSE IF IsSell(last, parseFormatted(ret)) THEN "sell"
    ELSE "nochange"

\* A variant of FetchOutcome without `if (!currentBalance) return`.
FetchOutcomeWithoutSkip(last, ret) ==
    IF ret.kind = "throw" THEN "error"
    ELSE IF last = Null THEN "baseline"
    ELSE IF IsSell(last, parseFormatted(ret)) THEN "sell"
    ELSE "nochange"

\* What the resumption after `await getTokenBalance` does, lines 279-300.
FetchOutcome(last, ret) ==
    IF ret.kind = "throw" THEN "error"
    ELSE IF ~IsTruthy(ret) THEN "skipped"
    ELSE IF last = Null THEN "baseline"
    ELSE IF IsSell(last, parseFormatted(ret)) THEN "sell"
    ELSE "nochange"

\* The call leaves the bag / is replaced by its next stage.
Without(c) == calls (-) SetToBag({c})
Moved(c, d) == (calls (-) SetToBag({c})) (+) SetToBag({d})

\* wallet.lastBalance = currentBalanceNum; wallet.lastChecked = Date.now()
UpdateWallet(wallet, current) ==
    [wallet EXCEPT !.lastBalance = current, !.lastChecked = now]

\* A variant of FetchReturns in which a failed request ends every check in
\* flight, as if the failure aborted the cycle.
FetchReturnsAborting(c, ret) ==
    LET wallet == heap[c.oid]
        current == parseFormatted(ret)
        outcome == FetchOutcome(wallet.lastBalance, ret)
    IN  /\ c.pc = "fetch"
        /\ calls' = IF outcome = "sell"
                    THEN Moved(c, [c EXCEPT !.pc = "history", !.cur = current,
                                            !.amt = wallet.lastBalance - current])
                    ELSE IF outcome = "error" THEN EmptyBag
                    ELSE Without(c)
        /\ heap' = Collect(IF outcome \in {"baseline", "nochange"}
                           THEN [heap EXCEPT ![c.oid] = UpdateWallet(wallet, current)]
                           ELSE heap,
                           monitoredWallets, calls')
        /\ ev' = [EvCheck("fetch", outcome, c.oid, wallet.lastBalance,
                          IF outcome \in {"error", "skipped"} THEN Null ELSE current,
                          IF outcome = "sell" THEN 1 ELSE 0, 0)
                      EXCEPT !.ret = ret]
        /\ UNCHANGED <<tokenAddress, blockchain, monitoredWallets, isMonitoring,
                       monitorInterval, intervals, alertSubscribers, updateSubscribers,
                       now, enhancedVars>>

\* checkWalletChanges resumes after `await getTokenBalance(...)`.
FetchReturns(c, ret) ==
    LET wallet == heap[c.oid]
        current == parseFormatted(ret)
        outcome == FetchOutcome(wallet.lastBalance, ret)
    IN  /\ c.pc = "fetch"
        /\ calls' = IF outcome = "sell"
                    THEN Moved(c, [c EXCEPT !.pc = "history", !.cur = current,
                                            !.amt = wallet.lastBalance - current])
                    ELSE Without(c)
        /\ heap' = Collect(IF outcome \in {"baseline", "nochange"}
                           THEN [heap EXCEPT ![c.oid] = UpdateWallet(wallet, current)]
                           ELSE heap,
                           monitoredWallets, calls')
        /\ ev' = [EvCheck("fetch", outcome, c.oid, wallet.lastBalance,
                          IF outcome \in {"error", "skipped"} THEN Null ELSE current,
                          IF outcome = "sell" THEN 1 ELSE 0, 0)
                      EXCEPT !.ret = ret]
        /\ UNCHANGED <<tokenAddress, blockchain, monitoredWallets, isMonitoring,
                       monitorInterval, intervals, alertSubscribers, updateSubscribers,
                       now, enhancedVars>>

\* A variant of Finish that returns without the update of lines 299-300.
FinishWithoutUpdate(c, step, result) ==
    /\ calls' = Without(c)
    /\ heap' = Collect(heap, monitoredWallets, calls')
    /\ ev' = EvCheck(step, result, c.oid, heap[c.oid].lastBalance, c.cur, 0, 0)

\* checkWalletChanges after handleSellDetected returned (it catches whatever
\* is thrown inside it): lines 298-300.
Finish(c, step, result) ==
    /\ calls' = Without(c)
    /\ heap' = Collect([heap EXCEPT ![c.oid] = UpdateWallet(heap[c.oid], c.cur)],
                       monitoredWallets, calls')
    /\ ev' = EvCheck(step, result, c.oid, heap[c.oid].lastBalance, c.cur, 0, 0)

\* A step of handleSellDetected that goes on to the next await.
Continue(c, d, step, result, posts) ==
    /\ calls' = Moved(c, d)
    /\ heap' = heap
    /\ ev' = EvCheck(step, result, c.oid, heap[c.oid].lastBalance, c.cur, 1, posts)

\* 5 * 60 * 1000 ms
FiveMinutes == 5 * 60 * 1000

Txs ==
    {[from |-> f, age |-> a, hash |-> "0xh"] :
        f \in {"0xA", "0xB", Undefined}, a \in {0, FiveMinutes}}

\* recentTxs.find(tx => tx.from.toLowerCase() === wallet.address.toLowerCase()
\*                      && Date.now() - tx.timestamp < 5 * 60 * 1000), from item i on.
\* toLowerCase of undefined throws.
RECURSIVE findSellTx(_, _, _)
findSellTx(txs, i, address) ==
    IF i > Len(txs) THEN [threw |-> FALSE, found |-> FALSE, tx |-> NoTx]
    ELSE IF txs[i].from = Undefined \/ address = Undefined
    THEN [threw |-> TRUE, found |-> FALSE, tx |-> NoTx]
    ELSE IF toLowerCase(txs[i].from) = toLowerCase(address) /\ txs[i].age < FiveMinutes
    THEN [threw |-> FALSE, found |-> TRUE, tx |-> txs[i]]
    ELSE findSellTx(txs, i + 1, address)

\* What `await WalletAnalyticsService.getTransactionHistory(...)` can yield.
HistoryReturnValues ==
    {[threw |-> TRUE, txs |-> <<>>]}
        \cup {[threw |-> FALSE, txs |-> s] : s \in SeqsUpTo(Txs, 1)}

\* handleSellDetected resumes after `await getTransactionHistory(...)`.
HistoryReturns(c, h) ==
    LET f == findSellTx(h.txs, 1, heap[c.oid].address)
    IN  /\ c.pc = "history"
        /\ IF ~h.threw /\ ~f.threw /\ f.found
           THEN Continue(c, [c EXCEPT !.pc = "usd", !.tx = f.tx], "history", "found", 0)
           ELSE Finish(c, "history", IF h.threw \/ f.threw THEN "error" ELSE "notfound")
        /\ UNCHANGED <<tokenAddress, blockchain, monitoredWallets, isMonitoring,
                       monitorInterval, intervals, alertSubscribers, updateSubscribers,
                       now, enhancedVars>>

\* What `await WalletAnalyticsService.getUSDValue(...)` can yield: an
\* exception, a number, or no value (Null).
UsdReturnValues ==
    {[threw |-> TRUE, val |-> 0]} \cup {[threw |-> FALSE, val |-> v] : v \in {Null, 0, 50}}

\* handleSellDetected resumes after `await getUSDValue(...)`.
UsdReturns(c, u) ==
    /\ c.pc = "usd"
    /\ IF ~u.threw
       THEN Continue(c, [c EXCEPT !.pc = "dex", !.usd = u.val], "usd", "ok", 0)
       ELSE Finish(c, "usd", "error")
    /\ UNCHANGED <<tokenAddress, blockchain, monitoredWallets, isMonitoring,
                   monitorInterval, intervals, alertSubscribers, updateSubscribers,
                   now, enhancedVars>>

Digit(d) ==
    CASE d = 0 -> "0" [] d = 1 -> "1" [] d = 2 -> "2" [] d = 3 -> "3" [] d = 4 -> "4"
      [] d = 5 -> "5" [] d = 6 -> "6" [] d = 7 -> "7" [] d = 8 -> "8" [] d = 9 -> "9"

\* Number.prototype.toString of a natural number
RECURSIVE NatToString(_)
NatToString(n) == IF n < 10 THEN Digit(n) ELSE NatToString(n \div 10) \o Digit(n % 10)

\* ((amountSold / lastBalance) * 100).toFixed(2), amountSold > 0: the quotient
\* rounded to hundredths; a division by 0 gives Infinity, NaN gives NaN.
toFixed2(amountSold, lastBalance) ==
    IF ~IsNum(lastBalance) \/ ~IsNum(amountSold) THEN "NaN"
    ELSE IF lastBalance = 0 THEN (IF amountSold = 0 THEN "NaN" ELSE "Infinity")
    ELSE LET hundredths == (amountSold * 10000 * 2 + lastBalance) \div (2 * lastBalance)
         IN  NatToString(hundredths \div 100) \o "."
                 \o Digit((hundredths \div 10) % 10) \o Digit(hundredths % 10)

\* The alertData literal of handleSellDetected (second definition), built from
\* the wallet as it is when the last await before it has returned.
AlertData(wallet, c, destination) ==
    [walletAddress |-> wallet.address, network |-> wallet.network,
     amountSold |-> c.amt, usdValue |-> c.usd,
     previousBalance |-> wallet.lastBalance, newBalance |-> c.cur,
     changePercentage |-> toFixed2(c.amt, wallet.lastBalance),
     destination |-> destination, transactionHash |-> c.tx.hash]

\* formatTelegramMessage throws on usdValue.toFixed of no value and on
\* network.toUpperCase of no value; sendTelegramAlert catches it and posts nothing.
FormatThrows(alert) == alert.usdValue = Null \/ alert.network = Undefined

\* What `await WalletAnalyticsService.identifyDEX(...)` can yield.
DexReturnValues == {[threw |-> TRUE, val |-> "none"], [threw |-> FALSE, val |-> "Uniswap"]}

\* handleSellDetected resumes after `await identifyDEX(...)`: it builds
\* alertData and sendAlert starts with the Telegram post, or with the dashboard
\* post when the message could not be formatted.
DexReturns(c, d) ==
    LET alert == AlertData(heap[c.oid], c, d.val)
    IN  /\ c.pc = "dex"
        /\ IF ~d.threw
           THEN Continue(c, [c EXCEPT !.alert = <<alert>>,
                                      !.pc = IF FormatThrows(alert) THEN "dashboard"
                                             ELSE "telegram",
                                      !.sinks = IF FormatThrows(alert) THEN <<"unsent">>
                                                ELSE <<>>],
                         "dex", "ok", 1)
           ELSE Finish(c, "dex", "error")
        /\ UNCHANGED <<tokenAddress, blockchain, monitoredWallets, isMonitoring,
                       monitorInterval, intervals, alertSubscribers, updateSubscribers,
                       now, enhancedVars>>

\* A post to a sink succeeds or fails; each sender catches its own failure.
PostOutcomes == {"ok", "failed"}

\* A variant of SinkReturns whose sender does not catch: the failure reaches
\* the catch of handleSellDetected and the later senders are skipped.
SinkReturnsUncaught(c, stage, next, outcome) ==
    /\ c.pc = stage
    /\ IF outcome = "failed"
       THEN Finish(c, stage, "error")
       ELSE Continue(c, [c EXCEPT !.pc = next, !.sinks = Append(@, outcome)],
                     stage, outcome, 1)
    /\ UNCHANGED <<tokenAddress, blockchain, monitoredWallets, isMonitoring,
                   monitorInterval, intervals, alertSubscribers, updateSubscribers,
                   now, enhancedVars>>

\* The post of one sender returns and the next sender posts.
SinkReturns(c, stage, next, outcome) ==
    /\ c.pc = stage
    /\ Continue(c, [c EXCEPT !.pc = next, !.sinks = Append(@, outcome)], stage, outcome, 1)
    /\ UNCHANGED <<tokenAddress, blockchain, monitoredWallets, isMonitoring,
                   monitorInterval, intervals, alertSubscribers, updateSubscribers,
                   now, enhancedVars>>

\* sendTelegramAlert's post returns; sendDashboardAlert posts.
TelegramReturns(c, outcome) == SinkReturns(c, "telegram", "dashboard", outcome)
\* sendDashboardAlert's post returns; storeAlert posts.
DashboardReturns(c, outcome) == SinkReturns(c, "dashboard", "store", outcome)

\* storeAlert's post returns; the subscribers are notified and
\* checkWalletChanges updates the wallet.  A forEach that does not end keeps
\* the call, and the program, inside notifySubscribers.
StoreReturns(c, outcome) ==
    LET n == notifySubscribers(alertSubscribers)
        told == <<[alert |-> c.alert[1], sinks |-> Append(c.sinks, outcome),
                   subscribers |-> alertSubscribers,
                   recipients |-> n.invoked, complete |-> n.complete]>>
    IN  /\ c.pc = "store"
        /\ alertSubscribers' = Compact(n.slots)
        /\ calls' = IF n.complete THEN Without(c)
                    ELSE Moved(c, [c EXCEPT !.pc = "notify"])
        /\ heap' = IF n.complete
                   THEN Collect([heap EXCEPT ![c.oid] = UpdateWallet(heap[c.oid], c.cur)],
                                monitoredWallets, calls')
                   ELSE heap
        /\ ev' = [EvCheck("store", IF n.complete THEN "alert" ELSE "looping", c.oid,
                          heap[c.oid].lastBalance, c.cur, 0, 0)
                     EXCEPT !.notified = told]
        /\ UNCHANGED <<tokenAddress, blockchain, monitoredWallets, isMonitoring,
                       monitorInterval, intervals, updateSubscribers, now, enhancedVars>>

\* A call is inside a notifySubscribers that does not end: nothing else runs.
Hung == \E c \in InFlight : c.pc = "notify"

\* ------------------------------------------------ EnhancedRealTimeMonitor
\* The class has the fields of RealTimeMonitor under the same names, except
\* alertCallbacks and updateCallbacks, which are held in alertSubscribers and
\* updateSubscribers, and websocketConnection.

\* Date.now(), which is never 0.
DateNow == now + 1

\* The interval of startPolling, in ms.
PollPeriod == 30000

\* One address of this.dexAddresses (they are all in lower case).
DexRouter == "0x7a250d5630b4cf539739df2c5dacb4c659f2488d"
dexAddresses == {DexRouter}

\* The `wallets` arguments: something that is no array, no wallet, a wallet
\* with its balance, one without (Null), and null after a wallet.
EnhancedWalletArgs ==
    {NotAnArray, Array(<<>>),
     Array(<<[isNull |-> FALSE, address |-> "0xa", balance |-> 1000]>>),
     Array(<<[isNull |-> FALSE, address |-> "0xA", balance |-> Null], NullWallet>>)}

\* { ...wallet, lastBalance: wallet.balance, lastChecked: Date.now(),
\*   alertCount: 0, isActive: false }
EnhancedNewWallet(wallet) ==
    [address |-> wallet.address, balance |-> wallet.balance,
     lastBalance |-> wallet.balance, lastChecked |-> DateNow, alertCount |-> 0,
     isActive |-> FALSE, lastActivity |-> Null]

\* for (const wallet of wallets) this.monitoredWallets.set(wallet.address, ...),
\* from item i on; wallet.address of null throws.
RECURSIVE EnhancedInitializeLoop(_, _, _, _)
EnhancedInitializeLoop(items, i, map, hp) ==
    IF i > Len(items) THEN [map |-> map, heap |-> hp, threw |-> FALSE]
    ELSE IF items[i].isNull THEN [map |-> map, heap |-> hp, threw |-> TRUE]
    ELSE EnhancedInitializeLoop(items, i + 1, MapSet(map, items[i].address, NewOid(hp)),
                                Allocate(hp, EnhancedNewWallet(items[i])))

\* async initialize({ tokenAddress, blockchain, wallets }): it has no await, and
\* what it throws rejects the promise it returns.  The map is not cleared.
EnhancedInitialize(token, network, wallets) ==
    LET r == IF wallets.isArray
             THEN EnhancedInitializeLoop(wallets.items, 1, monitoredWallets, heap)
             ELSE [map |-> monitoredWallets, heap |-> heap, threw |-> TRUE]
    IN  /\ tokenAddress' = token
        /\ blockchain' = network
        /\ monitoredWallets' = r.map
        /\ heap' = Collect(r.heap, r.map, calls)
        /\ ev' = [EvArgs("initialize", IF r.threw THEN "rejected" ELSE "ok", wallets)
                      EXCEPT !.initialized = TRUE]
        /\ UNCHANGED <<isMonitoring, monitorInterval, intervals, calls, alertSubscribers,
                       updateSubscribers, enhancedVars, now>>

\* The timers of both kinds.
Timers == intervals \cup activityIntervals

\* The part of startMonitoring that runs after `await this.initializeWebSocket()`
\* is a call in flight of its own.
StartPending == {c \in InFlight : c.pc = "startPolling"}

\* Timer callbacks and socket events run only when no continuation is waiting.
TaskCanRun == StartPending = {}

\* new WebSocket(wsUrl): a socket no socket has the handle of.
NewSocket == CHOOSE k \in 1..(Cardinality(DOMAIN sockets) + 1) : k \notin DOMAIN sockets

\* async startMonitoring(), up to the await: initializeWebSocket() creates the
\* socket, unless new WebSocket throws, which it catches.  MaxTimers bounds the
\* timers and the sockets ever created.
EnhancedStartMonitoring(socketThrows) ==
    /\ Cardinality(activityIntervals) + BagCardinality(calls) < MaxTimers
    /\ IF isMonitoring
       THEN /\ ev' = Ev("startMonitoring", "already")
            /\ UNCHANGED <<isMonitoring, calls, enhancedVars>>
       ELSE /\ isMonitoring' = TRUE
            /\ calls' = calls (+) SetToBag({[NewCall(0) EXCEPT !.pc = "startPolling"]})
            /\ IF socketThrows
               THEN UNCHANGED <<websocketConnection, sockets>>
               ELSE /\ websocketConnection' = NewSocket
                    /\ sockets' = MapSet(sockets, NewSocket, "connecting")
            /\ UNCHANGED activityIntervals
            /\ ev' = Ev("startMonitoring", IF socketThrows THEN "nosocket" ELSE "socket")
    /\ UNCHANGED <<tokenAddress, blockchain, monitoredWallets, heap, monitorInterval,
                   intervals, alertSubscribers, updateSubscribers, now>>

\* startMonitoring resumes: startPolling() and startTransactionMonitoring().
\* The handle of the second timer is not kept.
EnhancedStartMonitoringResumes(c) ==
    LET poll == NewTimer(Timers)
        activity == NewTimer(Timers \cup {poll})
    IN  /\ c.pc = "startPolling"
        /\ calls' = Without(c)
        /\ monitorInterval' = poll
        /\ intervals' = intervals \cup {poll}
        /\ activityIntervals' = activityIntervals \cup {activity}
        /\ ev' = [Ev("startPolling", "ok") EXCEPT !.timer = poll]
        /\ UNCHANGED <<tokenAddress, blockchain, monitoredWallets, heap, isMonitoring,
                       alertSubscribers, updateSubscribers, websocketConnection,
                       sockets, now>>

\* stopMonitoring(): the map is kept.
EnhancedStopMonitoring ==
    /\ isMonitoring' = FALSE
    /\ monitorInterval' = NoTimer
    /\ intervals' = intervals \ {monitorInterval}
    /\ websocketConnection' = NoSocket
    /\ sockets' = IF websocketConnection # NoSocket
                  THEN [sockets EXCEPT ![websocketConnection] = "closed"]
                  ELSE sockets
    /\ ev' = [Ev("stopMonitoring", "ok") EXCEPT !.stopped = monitorInterval]
    /\ UNCHANGED <<tokenAddress, blockchain, monitoredWallets, heap, calls,
                   alertSubscribers, updateSubscribers, activityIntervals, now>>

\* Math.max(...Array.from(this.monitoredWallets.values()).map(w => w.lastChecked || 0))
EnhancedLastCheck(wallets) ==
    IF wallets = {} THEN NegInfinity
    ELSE MathMax({LastCheckedOrZero(heap[o]) : o \in wallets})

\* The object getStatus() returns; it has no lastChecked.
EnhancedStatus ==
    [isMonitoring |-> isMonitoring,
     walletCount |-> Cardinality(DOMAIN monitoredWallets),
     connected |-> websocketConnection # NoSocket /\ sockets[websocketConnection] = "open",
     lastCheck |-> EnhancedLastCheck(MapValues(monitoredWallets))]

\* getStatus()
EnhancedGetStatus ==
    /\ ev' = [Ev("getStatus", "ok") EXCEPT !.status = <<EnhancedStatus>>]
    /\ UNCHANGED <<tokenAddress, blockchain, monitoredWallets, heap, isMonitoring,
                   monitorInterval, intervals, calls, alertSubscribers,
                   updateSubscribers, enhancedVars, now>>

\* The connection of a socket is established: onopen.
SocketOpens(k) ==
    /\ TaskCanRun
    /\ sockets[k] = "connecting"
    /\ sockets' = [sockets EXCEPT ![k] = "open"]
    /\ ev' = Ev("onopen", "ok")
    /\ UNCHANGED <<tokenAddress, blockchain, monitoredWallets, heap, isMonitoring,
                   monitorInterval, intervals, calls, alertSubscribers,
                   updateSubscribers, websocketConnection, activityIntervals, now>>

\* A connection that is being established or is established.
LiveSockets == {k \in DOMAIN sockets : sockets[k] \in {"connecting", "open"}}

\* The sockets ever created are at most MaxSockets.
MaxSockets == 3

\* onclose of a socket, after close() or after the connection was lost: it
\* schedules the reconnect callback with setTimeout(..., 5000).
SocketCloses(k) ==
    /\ TaskCanRun
    /\ sockets[k] \in {"connecting", "open", "closed"}
    /\ sockets' = [sockets EXCEPT ![k] = "reconnecting"]
    /\ ev' = [Ev("onclose", "ok") EXCEPT !.net = k]
    /\ UNCHANGED <<tokenAddress, blockchain, monitoredWallets, heap, isMonitoring,
                   monitorInterval, intervals, calls, alertSubscribers,
                   updateSubscribers, websocketConnection, activityIntervals, now>>

\* The reconnect callback of a socket, 5 seconds after its onclose:
\* if (this.isMonitoring) this.initializeWebSocket(), which assigns a new
\* socket to websocketConnection and closes none.
Reconnect(k) ==
    /\ TaskCanRun
    /\ sockets[k] = "reconnecting"
    /\ Cardinality(DOMAIN sockets) < MaxSockets
    /\ IF isMonitoring
       THEN /\ websocketConnection' = NewSocket
            /\ sockets' = MapSet([sockets EXCEPT ![k] = "gone"], NewSocket, "connecting")
       ELSE /\ sockets' = [sockets EXCEPT ![k] = "gone"]
            /\ UNCHANGED websocketConnection
    /\ ev' = [Ev("reconnect", IF isMonitoring THEN "socket" ELSE "idle") EXCEPT !.net = k]
    /\ UNCHANGED <<tokenAddress, blockchain, monitoredWallets, heap, isMonitoring,
                   monitorInterval, intervals, calls, alertSubscribers,
                   updateSubscribers, activityIntervals, now>>

\* this.monitoredWallets.get(key); 0 stands for undefined.
MapGet(key) == IF key \in DOMAIN monitoredWallets THEN monitoredWallets[key] ELSE 0

\* The pending transactions a socket reports.
Transactions ==
    {[from |-> "0xA", to |-> DexRouter, hash |-> "0xh"],
     [from |-> Undefined, to |-> "0xa", hash |-> "0xh"]}

\* triggerAlert(alert): every callback of alertCallbacks, each in its own
\* try/catch.
triggerAlert(subscribers) == forEach(subscribers, 1, <<>>, MaxVisits, TRUE)

\* triggerUpdate(updateData): every callback of updateCallbacks, each in its
\* own try/catch.
triggerUpdate(subscribers) == forEach(subscribers, 1, <<>>, MaxVisits, TRUE)

\* A variant of handlePotentialSell that counts down.
handlePotentialSellCountsDown(wallet) == [wallet EXCEPT !.alertCount = @ - 1]

\* handlePotentialSell(tx, wallet): wallet.alertCount++
handlePotentialSell(wallet) == [wallet EXCEPT !.alertCount = @ + 1]

\* fromWallet.isActive = true; fromWallet.lastActivity = Date.now()
Activity(hp, oid) ==
    IF oid = 0 THEN hp
    ELSE [hp EXCEPT ![oid] = [@ EXCEPT !.isActive = TRUE, !.lastActivity = DateNow]]

\* onmessage with an eth_subscription: handleWebSocketTransaction(tx).
\* MaxAlerts bounds alertCount.
SocketMessage(k, tx) ==
    LET fromWallet == MapGet(toLowerCase(tx.from))
        toWallet == MapGet(toLowerCase(tx.to))
        watched == fromWallet # 0 \/ toWallet # 0
        sell == watched /\ toLowerCase(tx.to) \in dexAddresses /\ fromWallet # 0
        n == triggerAlert(alertSubscribers)
        sold == IF sell
                THEN [heap EXCEPT ![fromWallet] = handlePotentialSell(heap[fromWallet])]
                ELSE heap
    IN  /\ TaskCanRun
        /\ sockets[k] = "open"
        /\ sell => heap[fromWallet].alertCount < MaxAlerts /\ n.complete
        /\ heap' = IF watched THEN Activity(Activity(sold, fromWallet), toWallet) ELSE heap
        /\ alertSubscribers' = IF sell THEN Compact(n.slots) ELSE alertSubscribers
        /\ ev' = [Ev("onmessage", IF sell THEN "alert" ELSE IF watched THEN "activity"
                                  ELSE "ignored")
                      EXCEPT !.oid = fromWallet,
                             !.notified = IF sell
                                          THEN <<[type |-> "DEX_SELL_DETECTED",
                                                  recipients |-> n.invoked]>>
                                          ELSE <<>>]
        /\ UNCHANGED <<tokenAddress, blockchain, monitoredWallets, isMonitoring,
                       monitorInterval, intervals, calls, updateSubscribers,
                       enhancedVars, now>>

\* The interval callback of startPolling: checkAllWallets().
EnhancedTick ==
    /\ TaskCanRun
    /\ TickUpTo(MaxInFlight)

\* What `await this.walletService.getTokenBalance(...)` can yield.
EnhancedBalanceReturns ==
    {[threw |-> TRUE, val |-> 0], [threw |-> FALSE, val |-> Null]}
        \cup {[threw |-> FALSE, val |-> b] : b \in {900, 1000}}

\* Math.abs(percentChange) > 5, for percentChange =
\* (currentBalance - lastBalance) / lastBalance * 100: NaN without a
\* lastBalance, infinite for lastBalance 0.
IsSignificant(last, current) ==
    IF last = Null THEN FALSE
    ELSE IF last = 0 THEN TRUE
    ELSE IF current >= last THEN (current - last) * 100 > 5 * last
    ELSE (last - current) * 100 > 5 * last

\* checkWalletChanges resumes after `await getTokenBalance(...)`: a balance
\* that differs from lastBalance is alerted when significant and stored; the
\* update goes out after getTokenPrice and calculateSellPressure.
EnhancedFetchReturns(c, ret) ==
    LET wallet == heap[c.oid]
        changed == ~ret.threw /\ ret.val # Null /\ ret.val # wallet.lastBalance
        alerts == changed /\ IsSignificant(wallet.lastBalance, ret.val)
        n == triggerAlert(alertSubscribers)
    IN  /\ TaskCanRun
        /\ c.pc = "fetch"
        /\ alerts => n.complete
        /\ calls' = IF changed THEN Moved(c, [c EXCEPT !.pc = "price", !.cur = ret.val])
                    ELSE Without(c)
        /\ heap' = Collect(IF changed
                           THEN [heap EXCEPT ![c.oid] =
                                    [@ EXCEPT !.lastBalance = ret.val,
                                              !.lastChecked = DateNow]]
                           ELSE heap,
                           monitoredWallets, calls')
        /\ alertSubscribers' = IF alerts THEN Compact(n.slots) ELSE alertSubscribers
        /\ ev' = [EvCheck("fetch", IF ret.threw THEN "error"
                                   ELSE IF ~changed THEN "unchanged"
                                   ELSE IF alerts THEN "alert" ELSE "changed",
                          c.oid, wallet.lastBalance, IF changed THEN ret.val ELSE Null,
                          0, 0)
                      EXCEPT !.notified =
                                 IF alerts
                                 THEN <<[type |-> IF wallet.lastBalance = Null
                                                     \/ ret.val > wallet.lastBalance
                                                  THEN "BALANCE_INCREASE"
                                                  ELSE "BALANCE_DECREASE",
                                         recipients |-> n.invoked]>>
                                 ELSE <<>>]
        /\ UNCHANGED <<tokenAddress, blockchain, monitoredWallets, isMonitoring,
                       monitorInterval, intervals, updateSubscribers, enhancedVars, now>>

\* `await this.getTokenPrice()` returns (0 when the request failed).
EnhancedPriceReturns(c) ==
    /\ TaskCanRun
    /\ c.pc = "price"
    /\ calls' = Moved(c, [c EXCEPT !.pc = "pressure"])
    /\ ev' = EvCheck("price", "ok", c.oid, heap[c.oid].lastBalance, c.cur, 1, 0)
    /\ UNCHANGED <<tokenAddress, blockchain, monitoredWallets, heap, isMonitoring,
                   monitorInterval, intervals, alertSubscribers, updateSubscribers,
                   enhancedVars, now>>

\* `await this.calculateSellPressure(wallet)` returns (0 when it failed), and
\* triggerUpdate hands the update to the callbacks.
EnhancedPressureReturns(c) ==
    LET n == triggerUpdate(updateSubscribers)
    IN  /\ TaskCanRun
        /\ c.pc = "pressure"
        /\ n.complete
        /\ calls' = Without(c)
        /\ heap' = Collect(heap, monitoredWallets, calls')
        /\ updateSubscribers' = Compact(n.slots)
        /\ ev' = [EvCheck("pressure", "update", c.oid, heap[c.oid].lastBalance, c.cur, 1, 0)
                      EXCEPT !.updated = n.invoked]
        /\ UNCHANGED <<tokenAddress, blockchain, monitoredWallets, isMonitoring,
                       monitorInterval, intervals, alertSubscribers, enhancedVars, now>>

\* w.lastActivity && Date.now() - w.lastActivity < 5 * 60 * 1000
IsRecentlyActive(wallet) ==
    wallet.lastActivity # Null /\ (DateNow - wallet.lastActivity) * PollPeriod < FiveMinutes

\* The interval callback of startTransactionMonitoring:
\* checkCoordinatedActivity(), which alerts when three wallets or more were
\* active in the last five minutes.
ActivityTick ==
    LET recentActivity == {o \in MapValues(monitoredWallets) : IsRecentlyActive(heap[o])}
        alerts == Cardinality(recentActivity) >= 3
        n == triggerAlert(alertSubscribers)
    IN  /\ TaskCanRun
        /\ activityIntervals # {}
        /\ alerts => n.complete
        /\ alertSubscribers' = IF alerts THEN Compact(n.slots) ELSE alertSubscribers
        /\ ev' = [Ev("checkCoordinatedActivity", IF alerts THEN "alert" ELSE "quiet")
                      EXCEPT !.notified = IF alerts
                                          THEN <<[type |-> "COORDINATED_ACTIVITY",
                                                  recipients |-> n.invoked]>>
                                          ELSE <<>>]
        /\ UNCHANGED <<tokenAddress, blockchain, monitoredWallets, heap, isMonitoring,
                       monitorInterval, intervals, calls, updateSubscribers,
                       enhancedVars, now>>

\* ------------------------------------------------- WalletAnalyticsService
\* The service of part_001 keeps no state between calls: a call is modelled
\* by the operator that computes its result from the arguments, the answers of
\* the providers and the clock.  Percentages are counted in tenths of a
\* percent (0.1 is 1, 10 is 100); NaN stands for a percentage that is no
\* number (missing or NaN), for which every comparison is false.

\* a > b of JavaScript for a that may be no number
Greater(a, b) == IsNum(a) /\ a > b

\* `percentage > 0.1` (line 341) and `percentage > 10` (line 346)
TeamThreshold == 1
TeamHighRisk == 100

\* A holder record: null, or an object whose address may be missing.
NullHolder == [isNull |-> TRUE, address |-> Undefined, balance |-> 0, percentage |-> NaN]
Holder(address, percentage) ==
    [isNull |-> FALSE, address |-> address, balance |-> 0, percentage |-> percentage]

\* `h.address.slice(0, 8)` and the destructuring of a holder throw a TypeError
\* for null and for a missing address.
IsMalformed(holder) == holder.isNull \/ holder.address = Undefined

\* An explorer's answer to a txlist request: the request failed, or a status
\* with the transactions (sender and time of each).
FailedReply == [ok |-> FALSE, status |-> "0", result |-> <<>>]
Reply(result) == [ok |-> TRUE, status |-> "1", result |-> result]
Tx(from, timestamp) == [from |-> from, timestamp |-> timestamp]

\* checkDeployerFunding: whether a listed transaction was sent by the deployer.
checkDeployerFunding(reply, deployerAddress) ==
    IF ~reply.ok THEN FALSE
    ELSE IF reply.status = "1"
         THEN \E i \in 1..Len(reply.result) :
                  toLowerCase(reply.result[i].from) = toLowerCase(deployerAddress)
         ELSE FALSE

\* getWalletTransactions: the listed transactions, each a 'sell' when the
\* wallet sent it and a 'buy' otherwise; none when the request fails.
getWalletTransactions(reply, address) ==
    IF reply.ok /\ reply.status = "1"
    THEN [i \in 1..Len(reply.result) |->
             [timestamp |-> reply.result[i].timestamp,
              type |-> IF toLowerCase(reply.result[i].from) = toLowerCase(address)
                       THEN "sell" ELSE "buy"]]
    ELSE <<>>

\* 24 * 60 * 60 * 1000 ms (line 425) and `transactions.length < 10` (line 428)
OneDay == 24 * 60 * 60 * 1000
LowActivityLimit == 10

Count(transactions, type) ==
    Cardinality({i \in 1..Len(transactions) : transactions[i].type = type})

\* detectBundlePattern on the transactions getWalletTransactions returned, at
\* the time Date.now() gives.
detectBundlePattern(transactions, clock) ==
    LET hasQuickSells == \E i \in 1..Len(transactions) :
                             /\ transactions[i].type = "sell"
                             /\ clock - transactions[i].timestamp < OneDay
        hasLowActivity == Len(transactions) < LowActivityLimit
        hasHighSellRatio == Count(transactions, "sell") > Count(transactions, "buy")
    IN  IF hasQuickSells /\ hasLowActivity
        THEN [isBundle |-> TRUE, reason |-> "Quick sell pattern detected"]
        ELSE IF hasHighSellRatio /\ hasLowActivity
        THEN [isBundle |-> TRUE, reason |-> "High sell ratio with low activity"]
        ELSE [isBundle |-> FALSE, reason |-> "Normal activity pattern"]

\* What classifyWallet returns or that it threw; requests counts the requests
\* it sent to the explorer.
Classified(type, reason, riskLevel, requests) ==
    [threw |-> FALSE, type |-> type, reason |-> reason, riskLevel |-> riskLevel,
     requests |-> requests]
ClassifyThrew == [threw |-> TRUE, type |-> "none", reason |-> "TypeError",
                  riskLevel |-> "none", requests |-> 0]

\* A variant of classifyWallet that looks at the deployer's funding before the
\* percentage.
classifyWalletFundingFirst(holder, deployer, funding, history, clock) ==
    IF IsMalformed(holder) THEN ClassifyThrew
    ELSE IF deployer # Undefined /\ checkDeployerFunding(funding, deployer)
    THEN Classified("bundle", "Funded by contract deployer", "high", 1)
    ELSE IF Greater(holder.percentage, TeamThreshold)
    THEN Classified("team", "Holds part of total supply",
                    IF Greater(holder.percentage, TeamHighRisk) THEN "high" ELSE "medium", 0)
    ELSE Classified("regular", "Normal wallet activity", "low", 1)

\* classifyWallet(holder, deployer, metadata, blockchain): deployer is the
\* deployer's address or Undefined when there is none, funding and history the
\* explorer's answers to the txlist requests of checkDeployerFunding and of
\* getWalletTransactions for the holder's address, clock what Date.now() gives.
classifyWallet(holder, deployer, funding, history, clock) ==
    IF IsMalformed(holder) THEN ClassifyThrew
    ELSE IF Greater(holder.percentage, TeamThreshold)
    THEN Classified("team", "Holds part of total supply",
                    IF Greater(holder.percentage, TeamHighRisk) THEN "high" ELSE "medium", 0)
    ELSE IF deployer # Undefined /\ checkDeployerFunding(funding, deployer)
    THEN Classified("bundle", "Funded by contract deployer", "high", 1)
    ELSE LET asked == IF deployer # Undefined THEN 2 ELSE 1
             bundlePattern ==
                 detectBundlePattern(getWalletTransactions(history, holder.address), clock)
         IN  IF bundlePattern.isBundle
             THEN Classified("bundle", bundlePattern.reason, "medium", asked)
             ELSE Classified("regular", "Normal wallet activity", "low", asked)

\* `holders.slice(0, 5)` (line 295)
LoggedHolders == 5
Min(a, b) == IF a < b THEN a ELSE b

\* { ...holder, ...classification } and the entry of the catch block
Entry(holder, type, riskLevel) ==
    [address |-> holder.address, percentage |-> holder.percentage,
     type |-> type, riskLevel |-> riskLevel]

NoBuckets == [threw |-> FALSE, teamWallets |-> <<>>, bundleWallets |-> <<>>,
              regularWallets |-> <<>>]
BucketsThrew == [threw |-> TRUE, teamWallets |-> <<>>, bundleWallets |-> <<>>,
                 regularWallets |-> <<>>]

\* The loop of classifyWallets from holder i on.  providers gives, for every
\* address, the explorer's answers; clocks[i] is Date.now() while holder i is
\* classified.  The catch block reads holder.address, which throws again for a
\* null holder.
RECURSIVE classifyLoop(_, _, _, _, _, _)
classifyLoop(holders, i, deployer, providers, clocks, buckets) ==
    IF i > Len(holders) THEN buckets
    ELSE LET holder == holders[i]
             c == IF IsMalformed(holder) THEN ClassifyThrew
                  ELSE classifyWallet(holder, deployer, providers[holder.address].funding,
                                      providers[holder.address].history, clocks[i])
         IN  IF c.threw /\ holder.isNull THEN BucketsThrew
             ELSE classifyLoop(holders, i + 1, deployer, providers, clocks,
                      IF c.threw
                      THEN [buckets EXCEPT !.regularWallets =
                               Append(@, Entry(holder, "unknown", Undefined))]
                      ELSE IF c.type = "team"
                      THEN [buckets EXCEPT !.teamWallets =
                               Append(@, Entry(holder, c.type, c.riskLevel))]
                      ELSE IF c.type = "bundle"
                      THEN [buckets EXCEPT !.bundleWallets =
                               Append(@, Entry(holder, c.type, c.riskLevel))]
                      ELSE [buckets EXCEPT !.regularWallets =
                               Append(@, Entry(holder, c.type, c.riskLevel))])

\* The sum of the percentages of a bucket, as reduce computes it: NaN once a
\* percentage is no number.
RECURSIVE SumPercentage(_)
SumPercentage(wallets) ==
    IF wallets = <<>> THEN 0
    ELSE LET rest == SumPercentage(Tail(wallets))
         IN  IF IsNum(rest) /\ IsNum(wallets[1].percentage)
             THEN rest + wallets[1].percentage ELSE NaN

\* The literals of assessRisk: 20 (line 496), 15 (line 499), 10 (line 502).
HighTeamSupply == 200
HighBundleSupply == 150
MediumSupply == 100

\* A variant of assessRisk whose limits belong to the higher level.
assessRiskInclusive(teamWallets, bundleWallets) ==
    LET teamSupply == SumPercentage(teamWallets)
        bundleSupply == SumPercentage(bundleWallets)
    IN  [riskLevel |-> IF teamSupply >= HighTeamSupply THEN "high"
                       ELSE IF bundleSupply >= HighBundleSupply THEN "high"
                       ELSE IF teamSupply >= MediumSupply \/ bundleSupply >= MediumSupply
                       THEN "medium"
                       ELSE "low",
         teamSupplyPercentage |-> teamSupply,
         bundleSupplyPercentage |-> bundleSupply,
         totalRiskySupply |-> teamSupply + bundleSupply]

\* assessRisk(teamWallets, bundleWallets)
assessRisk(teamWallets, bundleWallets) ==
    LET teamSupply == SumPercentage(teamWallets)
        bundleSupply == SumPercentage(bundleWallets)
    IN  [riskLevel |-> IF Greater(teamSupply, HighTeamSupply) THEN "high"
                       ELSE IF Greater(bundleSupply, HighBundleSupply) THEN "high"
                       ELSE IF Greater(teamSupply, MediumSupply)
                               \/ Greater(bundleSupply, MediumSupply) THEN "medium"
                       ELSE "low",
         teamSupplyPercentage |-> teamSupply,
         bundleSupplyPercentage |-> bundleSupply,
         totalRiskySupply |-> IF IsNum(teamSupply) /\ IsNum(bundleSupply)
                              THEN teamSupply + bundleSupply ELSE NaN]

\* What classifyWallets returns, or that it threw.
WithRisk(buckets) ==
    [threw |-> buckets.threw, teamWallets |-> buckets.teamWallets,
     bundleWallets |-> buckets.bundleWallets, regularWallets |-> buckets.regularWallets,
     riskAssessment |-> assessRisk(buckets.teamWallets, buckets.bundleWallets)]

\* classifyWallets(holders, deployer, metadata, blockchain): the first five
\* holders are logged, outside any try block, before the loop starts.
classifyWallets(holders, deployer, providers, clocks) ==
    IF ~holders.isArray \/ Len(holders.items) = 0 THEN WithRisk(NoBuckets)
    ELSE IF \E i \in 1..Min(LoggedHolders, Len(holders.items)) :
                IsMalformed(holders.items[i])
    THEN WithRisk(BucketsThrew)
    ELSE WithRisk(classifyLoop(holders.items, 1, deployer, providers, clocks, NoBuckets))

\* The metadata provider's answer: the request failed, no token in the
\* answer, or a token whose decimals and total_supply are digit strings (here
\* the numbers they spell) or missing (Null).
MetadataFailed == [ok |-> FALSE, found |-> FALSE, decimals |-> Null, totalSupply |-> Null]
MetadataNotFound == [ok |-> TRUE, found |-> FALSE, decimals |-> Null, totalSupply |-> Null]
MetadataOf(decimals, totalSupply) ==
    [ok |-> TRUE, found |-> TRUE, decimals |-> decimals, totalSupply |-> totalSupply]

\* getTokenMetadata: the token's metadata, or an error thrown again.
getTokenMetadata(reply) ==
    IF reply.ok /\ reply.found
    THEN [threw |-> FALSE, decimals |-> reply.decimals, totalSupply |-> reply.totalSupply]
    ELSE [threw |-> TRUE, decimals |-> Null, totalSupply |-> Null]

\* parseInt(metadata.decimals || '18') and parseFloat(metadata.totalSupply || '0')
DefaultDecimals == 18
parseDecimals(metadata) ==
    IF metadata.decimals = Null THEN DefaultDecimals ELSE metadata.decimals
parseTotalSupply(metadata) ==
    IF metadata.totalSupply = Null THEN 0 ELSE metadata.totalSupply

\* raw / Math.pow(10, decimals): the number m / 10^d, kept as the pair.
Formatted(raw, decimals) == [m |-> raw, d |-> decimals]

\* 10^k, and a / b for two such numbers whose quotient the inputs make exact.
RECURSIVE Pow10(_)
Pow10(k) == IF k = 0 THEN 1 ELSE 10 * Pow10(k - 1)
Quotient(a, b, scale) ==
    IF a.d >= b.d THEN (a.m * scale) \div (b.m * Pow10(a.d - b.d))
    ELSE (a.m * scale * Pow10(b.d - a.d)) \div b.m

\* A percentage is counted in tenths of a percent: `* 100` is a factor 1000.
PercentScale == 1000

\* A variant of percentage without the guard: x / 0 is Infinity or NaN.
percentageUnguarded(balanceFormatted, totalSupplyFormatted) ==
    IF balanceFormatted.m = NaN \/ totalSupplyFormatted.m = 0 THEN NaN
    ELSE Quotient(balanceFormatted, totalSupplyFormatted, PercentScale)

\* totalSupplyFormatted > 0 ? (balanceFormatted / totalSupplyFormatted) * 100 : 0
percentage(balanceFormatted, totalSupplyFormatted) ==
    IF totalSupplyFormatted.m > 0
    THEN IF balanceFormatted.m = NaN THEN NaN
         ELSE Quotient(balanceFormatted, totalSupplyFormatted, PercentScale)
    ELSE 0

\* The holder record both sources build; balanceRaw is parseFloat of the
\* provider's string, NaN when it spells no number.
HolderOf(address, balanceRaw, metadata) ==
    LET decimals == parseDecimals(metadata)
        totalSupplyFormatted == Formatted(parseTotalSupply(metadata), decimals)
        balanceFormatted == Formatted(balanceRaw, decimals)
    IN  [isNull |-> FALSE, address |-> address, balance |-> balanceFormatted,
         balanceRaw |-> balanceRaw,
         percentage |-> percentage(balanceFormatted, totalSupplyFormatted)]

\* The zero address, which getHoldersFromTransactions leaves out (line 230).
ZeroAddress == "0x0"

\* holders.get(tx.to) || 0, then holders.set(tx.to, current + valueRaw): the
\* Map as the list of its entries in insertion order.
RECURSIVE Received(_, _, _)
Received(transfers, i, entries) ==
    IF i > Len(transfers) THEN entries
    ELSE LET tx == transfers[i]
             at == {j \in 1..Len(entries) : entries[j].address = tx.to}
             sum(x, y) == IF x = NaN \/ y = NaN THEN NaN ELSE x + y
         IN  Received(transfers, i + 1,
                 IF tx.to = Undefined \/ tx.to = ZeroAddress THEN entries
                 ELSE IF at = {}
                 THEN Append(entries, [address |-> tx.to, balanceRaw |-> sum(0, tx.value)])
                 ELSE LET j == CHOOSE j \in at : TRUE
                      IN  [entries EXCEPT ![j].balanceRaw = sum(@, tx.value)])

\* sort((a, b) => b.balance - a.balance): a stable sort, largest first.
RECURSIVE InsertByBalance(_, _)
InsertByBalance(sorted, h) ==
    IF sorted = <<>> THEN <<h>>
    ELSE IF h.balanceRaw > sorted[1].balanceRaw THEN <<h>> \o sorted
    ELSE <<sorted[1]>> \o InsertByBalance(Tail(sorted), h)
RECURSIVE SortByBalance(_, _, _)
SortByBalance(list, i, sorted) ==
    IF i > Len(list) THEN sorted
    ELSE SortByBalance(list, i + 1, InsertByBalance(sorted, list[i]))

\* `.slice(0, 100)` (line 251) and `holders.slice(0, 3)` (line 182)
MaxReturned == 100
LoggedTop == 3

\* What a holders request returns: the list, where it came from, and the
\* metadata its percentages were computed from (none for an empty list).
NoSnapshot == [threw |-> TRUE, decimals |-> Null, totalSupply |-> Null]
HoldersResult(holders, from, snapshot) ==
    [holders |-> holders, from |-> from, snapshot |-> snapshot]

\* getHoldersFromTransactions: metadata is the provider's answer to its own
\* metadata request, transfers the explorer's answer to the tokentx request.
getHoldersFromTransactions(metadataReply, transfers) ==
    LET metadata == getTokenMetadata(metadataReply)
        entries == Received(transfers.result, 1, <<>>)
        holders == [i \in 1..Len(entries) |->
                       HolderOf(entries[i].address, entries[i].balanceRaw, metadata)]
        sorted == SortByBalance(holders, 1, <<>>)
    IN  IF metadata.threw \/ ~transfers.ok \/ transfers.status # "1"
        THEN HoldersResult(<<>>, "none", NoSnapshot)
        ELSE HoldersResult(SubSeq(sorted, 1, Min(MaxReturned, Len(sorted))),
                           "transactions", metadata)

\* getTopHolders: owners is the provider's answer to the owners request,
\* metadataReply its answer to the metadata request made when owners were
\* listed; whatever is thrown on the way leads to the fallback, which makes a
\* metadata request of its own (fallbackMetadata).
getTopHolders(owners, metadataReply, fallbackMetadata, transfers) ==
    LET metadata == getTokenMetadata(metadataReply)
        holders == [i \in 1..Len(owners.result) |->
                       HolderOf(owners.result[i].owner_address,
                                owners.result[i].balance, metadata)]
        logThrows == \E i \in 1..Min(LoggedTop, Len(holders)) :
                         holders[i].address = Undefined
    IN  IF owners.ok /\ Len(owners.result) > 0 /\ ~metadata.threw /\ ~logThrows
        THEN HoldersResult(holders, "owners", metadata)
        ELSE getHoldersFromTransactions(fallbackMetadata, transfers)

\* getContractDeployer: the creator the explorer names, or no deployer (null,
\* here Undefined) when it names none or the request fails.
getContractDeployer(reply) ==
    IF reply.ok /\ reply.status = "1" /\ Len(reply.result) > 0
    THEN reply.result[1].contractCreator
    ELSE Undefined

\* What analyzeToken returns, or that it threw.
AnalysisThrew ==
    [threw |-> TRUE, deployer |-> Undefined, metadata |-> NoSnapshot, holders |-> <<>>,
     holdersFrom |-> "none", classification |-> WithRisk(NoBuckets)]

\* analyzeToken: answers holds the providers' answers to the requests of one
\* analysis (deployer and metadata for its own two requests, the others for
\* getTopHolders and classifyWallets).  Only what getTokenMetadata and
\* classifyWallets throw reaches its catch block, which throws it again.
analyzeToken(answers, clock) ==
    LET deployer == getContractDeployer(answers.deployer)
        metadata == getTokenMetadata(answers.metadata)
        top == getTopHolders(answers.owners, answers.holdersMetadata,
                             answers.fallbackMetadata, answers.transfers)
        classification ==
            classifyWallets(Array(top.holders), deployer, answers.providers,
                            [i \in 1..Len(top.holders) |-> clock])
    IN  IF metadata.threw \/ classification.threw THEN AnalysisThrew
        ELSE [threw |-> FALSE, deployer |-> deployer, metadata |-> metadata,
              holders |-> top.holders, holdersFrom |-> top.from,
              classification |-> classification]

\* A call of the service that is still to run: its arguments and the answers
\* the providers will give.  The calls of ev.analysis run in order.
Pending(op, args) == [op |-> op, args |-> args, done |-> FALSE, result |-> <<>>]
Done(call, result) == [call EXCEPT !.done = TRUE, !.result = <<result>>]

\* The index of the call that runs next, 0 when all have run.
NextCall ==
    IF \E i \in 1..Len(ev.analysis) : ~ev.analysis[i].done
    THEN CHOOSE i \in 1..Len(ev.analysis) :
             /\ ~ev.analysis[i].done
             /\ \A j \in 1..(i - 1) : ev.analysis[j].done
    ELSE 0

\* The next call runs: `apply` gives its result from its arguments.
Runs(op, result) ==
    /\ NextCall # 0
    /\ ev.analysis[NextCall].op = op
    /\ ev' = [Ev(op, "ok") EXCEPT
                 !.analysis = [ev.analysis EXCEPT
                                  ![NextCall] = Done(@, result)]]
    /\ UNCHANGED <<tokenAddress, blockchain, monitoredWallets, heap, isMonitoring,
                   monitorInterval, intervals, calls, alertSubscribers,
                   updateSubscribers, enhancedVars, now>>

\* await classifyWallet(holder, deployer, metadata, blockchain)
ClassifyWallet ==
    LET a == ev.analysis[NextCall].args
    IN  Runs("classifyWallet",
             classifyWallet(a.holder, a.deployer, a.funding, a.history, a.clock))

\* await classifyWallets(holders, deployer, metadata, blockchain)
ClassifyWallets ==
    LET a == ev.analysis[NextCall].args
    IN  Runs("classifyWallets",
             classifyWallets(a.holders, a.deployer, a.providers, a.clocks))

\* await getTopHolders(contractAddress, blockchain)
GetTopHolders ==
    LET a == ev.analysis[NextCall].args
    IN  Runs("getTopHolders",
             getTopHolders(a.owners, a.metadata, a.fallbackMetadata, a.transfers))

\* await analyzeToken(contractAddress, blockchain)
AnalyzeToken ==
    LET a == ev.analysis[NextCall].args
    IN  Runs("analyzeToken", analyzeToken(a, a.clock))

\* assessRisk(teamWallets, bundleWallets)
AssessRisk ==
    LET a == ev.analysis[NextCall].args
    IN  Runs("assessRisk", assessRisk(a.teamWallets, a.bundleWallets))

\* --------------------------------------------------------- specifications
\* The steps of the calls in flight, for the collaborator answers given.
PollSteps(balanceReturns, historyReturns, usdReturns, postOutcomes) ==
    \/ \E c \in InFlight, r \in balanceReturns : FetchReturns(c, r)
    \/ \E c \in InFlight, h \in historyReturns : HistoryReturns(c, h)
    \/ \E c \in InFlight, u \in usdReturns : UsdReturns(c, u)
    \/ \E c \in InFlight, d \in DexReturnValues : DexReturns(c, d)
    \/ \E c \in InFlight, o \in postOutcomes : TelegramReturns(c, o)
    \/ \E c \in InFlight, o \in postOutcomes : DashboardReturns(c, o)
    \/ \E c \in InFlight, o \in postOutcomes : StoreReturns(c, o)

\* The wallet list and the token of the poll-cycle specification.
PollWalletArgs == {Array(<<[isNull |-> FALSE, address |-> "0xA"]>>)}
PollTokenArgs == {[token |-> "0xT", network |-> "ethereum"]}
PollCallbacks == {"cb1"}

\* Spec: the poll cycle of one wallet under every collaborator answer.  Here
\* initialize is called between polls; SpecLifecycle calls it during polls.
Next ==
    \/ \E t \in PollTokenArgs, w \in PollWalletArgs :
          calls = EmptyBag /\ Initialize(t.token, t.network, w)
    \/ StartMonitoring
    \/ \E cb \in PollCallbacks : Subscribe(cb)
    \/ \E cb \in PollCallbacks : Unsubscribe(cb)
    \/ Tick
    \/ PollSteps(BalanceReturns, HistoryReturnValues, UsdReturnValues, PostOutcomes)

Spec == Init /\ [][Next]_vars

\* The balance the provider reports in the lifecycle specifications.
LifecycleBalanceReturns == {[kind |-> "object", val |-> 1000, observed |-> TRUE]}

\* The wallet lists of the lifecycle specification: no array, an empty one,
\* one without a valid wallet, one with a wallet.
LifecycleWalletArgs ==
    {NotAnArray, Array(<<>>), Array(<<NullWallet>>),
     Array(<<[isNull |-> FALSE, address |-> "0xA"]>>)}

\* The wallet lists handed to startMonitoringLegacy: no array, a wallet, a
\* null element.
LegacyWalletArgs ==
    {NotAnArray, Array(<<[isNull |-> FALSE, address |-> "0xA"]>>), Array(<<NullWallet>>)}

\* SpecLifecycle: initialize, start, stop and startMonitoringLegacy in any
\* order, with polls that record a balance.
NextLifecycle ==
    \/ \E t \in TokenArgs, w \in LifecycleWalletArgs : Initialize(t.token, t.network, w)
    \/ StartMonitoring
    \/ StopMonitoring
    \/ \E w \in LegacyWalletArgs : StartMonitoringLegacy(w, "0xT", "ethereum")
    \/ Tick
    \/ \E c \in InFlight, r \in LifecycleBalanceReturns : FetchReturns(c, r)

SpecLifecycle == Init /\ [][NextLifecycle]_vars

\* SpecPopulate: the two operations that fill the map, under every wallet
\* list of at most MaxWallets elements, with polls that record a balance.
NextPopulate ==
    \/ \E t \in PollTokenArgs, w \in WalletArgs : Initialize(t.token, t.network, w)
    \/ StartMonitoring
    \/ StopMonitoring
    \/ \E w \in LegacyWalletArgs : StartMonitoringLegacy(w, "0xT", "ethereum")
    \/ Tick
    \/ \E c \in InFlight, r \in LifecycleBalanceReturns : FetchReturns(c, r)

SpecPopulate == Init /\ [][NextPopulate]_vars

\* The subscribers' specification: one wallet whose balance drops from 1000 to
\* 950 with a matching transfer and a price, every sink accepting the post,
\* and subscriber callbacks of every kind coming and going.
NotifyBalanceReturns ==
    {[kind |-> "object", val |-> b, observed |-> TRUE] : b \in {950, 1000}}
NotifyHistoryReturns ==
    {[threw |-> FALSE, txs |-> <<[from |-> "0xA", age |-> 0, hash |-> "0xh"]>>]}
NotifyUsdReturns == {[threw |-> FALSE, val |-> 50]}
NotifyPostOutcomes == {"ok"}

NextNotify ==
    /\ ~Hung
    /\ \/ \E t \in PollTokenArgs, w \in PollWalletArgs :
              calls = EmptyBag /\ Initialize(t.token, t.network, w)
       \/ StartMonitoring
       \/ \E cb \in Callbacks : Subscribe(cb)
       \/ \E cb \in Callbacks : Unsubscribe(cb)
       \/ Tick
       \/ PollSteps(NotifyBalanceReturns, NotifyHistoryReturns, NotifyUsdReturns,
                    NotifyPostOutcomes)

SpecNotify == Init /\ [][NextNotify]_vars

\* The subscriptions' specification: the same poll cycle, callbacks that return
\* registered and removed for alerts, callbacks registered and removed for
\* wallet updates, and notifyWalletUpdate called on the monitor.
SubscriptionCallbacks == {"cb1", "cb2"}

NextSubscriptions ==
    \/ \E t \in PollTokenArgs, w \in PollWalletArgs :
          calls = EmptyBag /\ Initialize(t.token, t.network, w)
    \/ StartMonitoring
    \/ \E cb \in SubscriptionCallbacks : Subscribe(cb)
    \/ \E cb \in SubscriptionCallbacks : Unsubscribe(cb)
    \/ \E cb \in UpdateCallbacks : OnWalletUpdate(cb)
    \/ \E cb \in UpdateCallbacks : OffWalletUpdate(cb)
    \/ NotifyWalletUpdate
    \/ Tick
    \/ PollSteps(NotifyBalanceReturns, NotifyHistoryReturns, NotifyUsdReturns,
                 NotifyPostOutcomes)

SpecSubscriptions == Init /\ [][NextSubscriptions]_vars

\* The status specification: the lifecycle with two wallets checked at
\* different times, and getStatus() called in every state.
StatusBalanceReturns ==
    {[kind |-> "throw", val |-> 0, observed |-> FALSE],
     [kind |-> "object", val |-> 1000, observed |-> TRUE]}
StatusWalletArgs ==
    {Array(<<>>), Array(<<[isNull |-> FALSE, address |-> "0xA"]>>),
     Array(<<[isNull |-> FALSE, address |-> "0xA"], [isNull |-> FALSE, address |-> "0xB"]>>)}

NextStatus ==
    \/ \E t \in PollTokenArgs, w \in StatusWalletArgs :
          calls = EmptyBag /\ Initialize(t.token, t.network, w)
    \/ StartMonitoring
    \/ StopMonitoring
    \/ GetStatus
    \/ TickUpTo(MaxStatusInFlight)
    \/ \E c \in InFlight, r \in StatusBalanceReturns : FetchReturns(c, r)

SpecStatus == Init /\ [][NextStatus]_vars

\* The sinks' specification: two wallets polled together, each dropping from
\* 1000 to 950 with a matching transfer, a price or none, and every alert sink
\* accepting or failing each post.
SinksWalletArgs ==
    {Array(<<[isNull |-> FALSE, address |-> "0xA"], [isNull |-> FALSE, address |-> "0xB"]>>)}
SinksHistoryReturns ==
    {[threw |-> FALSE, txs |-> <<[from |-> a, age |-> 0, hash |-> "0xh"]>>] :
        a \in {"0xA", "0xB"}}
SinksUsdReturns == {[threw |-> FALSE, val |-> v] : v \in {Null, 50}}

NextSinks ==
    \/ \E t \in PollTokenArgs, w \in SinksWalletArgs :
          calls = EmptyBag /\ Initialize(t.token, t.network, w)
    \/ StartMonitoring
    \/ \E cb \in PollCallbacks : Subscribe(cb)
    \/ TickUpTo(MaxStatusInFlight)
    \/ PollSteps(NotifyBalanceReturns, SinksHistoryReturns, SinksUsdReturns, PostOutcomes)

SpecSinks == Init /\ [][NextSinks]_vars

\* The specification of EnhancedRealTimeMonitor.
NextEnhanced ==
    \/ \E w \in EnhancedWalletArgs :
          calls = EmptyBag /\ EnhancedInitialize("0xT", "ethereum", w)
    \/ \E socketThrows \in BOOLEAN : EnhancedStartMonitoring(socketThrows)
    \/ \E c \in InFlight : EnhancedStartMonitoringResumes(c)
    \/ EnhancedStopMonitoring
    \/ EnhancedGetStatus
    \/ \E k \in DOMAIN sockets : SocketOpens(k)
    \/ \E k \in DOMAIN sockets, tx \in Transactions : SocketMessage(k, tx)
    \/ EnhancedTick
    \/ \E c \in InFlight, r \in EnhancedBalanceReturns : EnhancedFetchReturns(c, r)
    \/ \E c \in InFlight : EnhancedPriceReturns(c)
    \/ \E c \in InFlight : EnhancedPressureReturns(c)
    \/ ActivityTick

SpecEnhanced == Init /\ [][NextEnhanced]_vars

\* The sells of EnhancedRealTimeMonitor: one wallet, polled and reported on by
\* the socket, while monitoring starts and stops.
SellsWalletArgs == {Array(<<[isNull |-> FALSE, address |-> "0xa", balance |-> 1000]>>)}

NextEnhancedSells ==
    \/ \E w \in SellsWalletArgs :
          calls = EmptyBag /\ EnhancedInitialize("0xT", "ethereum", w)
    \/ EnhancedStartMonitoring(FALSE)
    \/ \E c \in InFlight : EnhancedStartMonitoringResumes(c)
    \/ EnhancedStopMonitoring
    \/ \E k \in DOMAIN sockets : SocketOpens(k)
    \/ \E k \in DOMAIN sockets, tx \in Transactions : SocketMessage(k, tx)
    \/ EnhancedTick
    \/ \E c \in InFlight, r \in EnhancedBalanceReturns : EnhancedFetchReturns(c, r)
    \/ \E c \in InFlight : EnhancedPriceReturns(c)
    \/ \E c \in InFlight : EnhancedPressureReturns(c)

SpecEnhancedSells == Init /\ [][NextEnhancedSells]_vars

\* The reconnect specification: the socket of EnhancedRealTimeMonitor while
\* monitoring starts and stops, connections close and reconnect callbacks run.
NextReconnect ==
    \/ \E w \in SellsWalletArgs :
          calls = EmptyBag /\ EnhancedInitialize("0xT", "ethereum", w)
    \/ EnhancedStartMonitoring(FALSE)
    \/ \E c \in InFlight : EnhancedStartMonitoringResumes(c)
    \/ EnhancedStopMonitoring
    \/ \E k \in DOMAIN sockets : SocketOpens(k)
    \/ \E k \in DOMAIN sockets : SocketCloses(k)
    \/ \E k \in DOMAIN sockets : Reconnect(k)

SpecReconnect == Init /\ [][NextReconnect]_vars

\* The batch specification: two wallets polled together while the balance
\* request of each fails, returns null or returns a balance.
BatchBalanceReturns ==
    {[kind |-> "throw", val |-> 0, observed |-> FALSE],
     [kind |-> "null", val |-> 0, observed |-> FALSE],
     [kind |-> "object", val |-> 1000, observed |-> TRUE]}

NextBatch ==
    \/ \E t \in PollTokenArgs, w \in SinksWalletArgs :
          calls = EmptyBag /\ Initialize(t.token, t.network, w)
    \/ StartMonitoring
    \/ TickUpTo(MaxStatusInFlight)
    \/ \E c \in InFlight, r \in BatchBalanceReturns : FetchReturns(c, r)

SpecBatch == Init /\ [][NextBatch]_vars

\* The stagger specification: four wallets, one more than the batch size of
\* checkAllWalletsStaggered, polled by one cycle at a time.
BatchSize == 3
MaxCycleChecks == 4
StaggerWalletArgs ==
    {Array([i \in 1..(BatchSize + 1) |->
               [isNull |-> FALSE, address |-> <<"0xa", "0xb", "0xc", "0xd">>[i]]])}

NextStagger ==
    \/ \E t \in PollTokenArgs, w \in StaggerWalletArgs :
          calls = EmptyBag /\ Initialize(t.token, t.network, w)
    \/ StartMonitoring
    \/ StopMonitoring
    \/ TickUpTo(MaxCycleChecks)
    \/ \E c \in InFlight, r \in StatusBalanceReturns : FetchReturns(c, r)

SpecStagger == Init /\ [][NextStagger]_vars

\* The overlap specification: one wallet whose balance drops from 1000 to 950,
\* polled by an interval that fires again while the check of the tick before
\* is still waiting for a collaborator.
NextOverlap ==
    \/ \E t \in PollTokenArgs, w \in PollWalletArgs :
          calls = EmptyBag /\ Initialize(t.token, t.network, w)
    \/ StartMonitoring
    \/ \E cb \in PollCallbacks : Subscribe(cb)
    \/ TickUpTo(MaxStatusInFlight)
    \/ PollSteps(NotifyBalanceReturns, NotifyHistoryReturns, NotifyUsdReturns,
                 NotifyPostOutcomes)

SpecOverlap == Init /\ [][NextOverlap]_vars

\* The classification specification: calls of classifyWallets and pairs of
\* calls of classifyWallet with the same arguments and the same answers of the
\* explorer, the second no earlier than the first.
MaxHolders == 2

\* The deployer's address, when the lookup found one.
Deployers == {Undefined, "0xD"}

\* Percentages below, at and above 0.1 % and 10 %, and one that is no number.
HolderInputs ==
    {NullHolder, Holder(Undefined, 50), Holder("0xA", 50), Holder("0xA", 0),
     Holder("0xB", 1), Holder("0xB", NaN)}
ClassifyWalletHolders ==
    {Holder(Undefined, 50)} \cup {Holder("0xA", x) : x \in {NaN, 0, 1, 2, 50, 100, 101}}

\* Two times a day apart, and transfers at the first of them.
Clocks == {OneDay, 2 * OneDay}
RECURSIVE Repeat(_, _)
Repeat(x, n) == IF n = 0 THEN <<>> ELSE <<x>> \o Repeat(x, n - 1)

\* The explorer's answers for one address: the request fails, no transaction,
\* one transfer from the deployer, a sale at the first time with a purchase
\* before it, a sale alone, and a sale among ten transactions.
FundingReplies == {FailedReply, Reply(<<>>), Reply(<<Tx("0xD", 1)>>), Reply(<<Tx("0xC", 1)>>)}
HistoryReplies ==
    {FailedReply, Reply(<<>>), Reply(<<Tx("0xC", 1)>>),
     Reply(<<Tx("0xA", 1), Tx("0xC", 1)>>),
     Reply(<<Tx("0xa", 1)>>),
     Reply(<<Tx("0xA", 1)>> \o Repeat(Tx("0xC", 1), LowActivityLimit - 1))}

\* The answers of the explorer for every holder address.
Providers ==
    {[a \in {"0xA", "0xB"} |-> [funding |-> f, history |-> h]] :
        f \in {Reply(<<>>), Reply(<<Tx("0xD", 1)>>)},
        h \in {FailedReply, Reply(<<Tx("0xA", 1), Tx("0xB", 1)>>)}}

ClassifyWalletCalls ==
    {<<Pending("classifyWallet", [holder |-> h, deployer |-> d, funding |-> f,
                                  history |-> t, clock |-> c[1]]),
       Pending("classifyWallet", [holder |-> h, deployer |-> d, funding |-> f,
                                  history |-> t, clock |-> c[2]])>> :
        h \in ClassifyWalletHolders, d \in Deployers, f \in FundingReplies,
        t \in HistoryReplies, c \in {c \in Clocks \X Clocks : c[1] <= c[2]}}

ClassifyWalletsCalls ==
    {<<Pending("classifyWallets",
               [holders |-> h, deployer |-> d, providers |-> p,
                clocks |-> [i \in 1..Len(h.items) |-> c]])>> :
        h \in {Array(l) : l \in SeqsUpTo(HolderInputs, MaxHolders)} \cup {NotAnArray},
        d \in Deployers, p \in Providers, c \in Clocks}

InitClassify ==
    /\ Constructed
    /\ \E a \in ClassifyWalletCalls \cup ClassifyWalletsCalls :
           ev = [InitEv EXCEPT !.analysis = a]

NextClassify == ClassifyWallet \/ ClassifyWallets

SpecClassify == InitClassify /\ [][NextClassify]_vars

\* The risk specification: assessRisk on buckets whose sums lie below, at and
\* above 10 %, 15 % and 20 %.
RiskPercentages == {1, 50, 100, 120, 150, 200, 250}
RiskBuckets(type) ==
    {[i \in 1..Len(l) |-> Entry(Holder("0xA", l[i]), type, "medium")] :
        l \in SeqsUpTo(RiskPercentages, MaxHolders)}

InitRisk ==
    /\ Constructed
    /\ \E t \in RiskBuckets("team"), b \in RiskBuckets("bundle") :
           ev = [InitEv EXCEPT !.analysis =
                    <<Pending("assessRisk", [teamWallets |-> t, bundleWallets |-> b])>>]

NextRisk == AssessRisk

SpecRisk == InitRisk /\ [][NextRisk]_vars

\* The holders specification: getTopHolders under every answer of the owners
\* request, of the two metadata requests and of the transfers request.  The
\* balances are multiples of a thousandth of the supplies, so that every
\* percentage is a whole number of tenths.
OwnerRows ==
    {[owner_address |-> "0xA", balance |-> 500], [owner_address |-> "0xB", balance |-> 250],
     [owner_address |-> Undefined, balance |-> 100]}
OwnersReplies ==
    {[ok |-> FALSE, result |-> <<>>]}
        \cup {[ok |-> TRUE, result |-> l] : l \in SeqsUpTo(OwnerRows, MaxHolders)}
MetadataReplies ==
    {MetadataFailed, MetadataNotFound, MetadataOf(2, 1000), MetadataOf(Null, 1000),
     MetadataOf(2, 0), MetadataOf(2, Null), MetadataOf(0, 2000)}
TransferRows ==
    {[to |-> "0xA", value |-> 250], [to |-> "0xB", value |-> 500],
     [to |-> ZeroAddress, value |-> 100]}
TransfersReplies ==
    {FailedReply, [ok |-> TRUE, status |-> "0", result |-> <<>>]}
        \cup {Reply(l) : l \in SeqsUpTo(TransferRows, MaxHolders)}

InitHolders ==
    /\ Constructed
    /\ \E o \in OwnersReplies, m \in MetadataReplies, f \in MetadataReplies,
          t \in TransfersReplies :
           ev = [InitEv EXCEPT !.analysis =
                    <<Pending("getTopHolders",
                              [owners |-> o, metadata |-> m, fallbackMetadata |-> f,
                               transfers |-> t])>>]

NextHolders == GetTopHolders

SpecHolders == InitHolders /\ [][NextHolders]_vars

\* The analysis specification: analyzeToken while the deployer lookup finds a
\* creator, finds none or fails, and each of the three metadata requests is
\* answered with a supply of 1000, with a supply of 2000, or fails.
DeployerReplies ==
    {FailedReply, [ok |-> TRUE, status |-> "0", result |-> <<>>],
     Reply(<<[contractCreator |-> "0xD"]>>)}
AnalysisMetadataReplies == {MetadataFailed, MetadataOf(2, 1000), MetadataOf(2, 2000)}
AnalysisOwnersReplies ==
    {[ok |-> FALSE, result |-> <<>>]}
        \cup {[ok |-> TRUE, result |-> l] :
                 l \in SeqsUpTo({r \in OwnerRows : r.owner_address # Undefined}, MaxHolders)}
AnalysisTransfersReplies == {FailedReply, Reply(<<[to |-> "0xA", value |-> 250]>>)}
AnalysisProviders ==
    {[a \in {"0xA", "0xB"} |-> [funding |-> Reply(<<Tx("0xD", 1)>>), history |-> FailedReply]]}

InitAnalyze ==
    /\ Constructed
    /\ \E d \in DeployerReplies, m \in AnalysisMetadataReplies, o \in AnalysisOwnersReplies,
          h \in AnalysisMetadataReplies, f \in AnalysisMetadataReplies,
          t \in AnalysisTransfersReplies, p \in AnalysisProviders :
           ev = [InitEv EXCEPT !.analysis =
                    <<Pending("analyzeToken",
                              [deployer |-> d, metadata |-> m, owners |-> o,
                               holdersMetadata |-> h, fallbackMetadata |-> f,
                               transfers |-> t, providers |-> p, clock |-> OneDay])>>]

NextAnalyze == AnalyzeToken

SpecAnalyze == InitAnalyze /\ [][NextAnalyze]_vars

\* ------------------------------------------------------------------ claims
\* The steps that end a checkWalletChanges call which went through sell
\* handling, and the steps that end one which compared two balances.
EndsSellHandling ==
    \/ ev.op \in {"history", "usd", "dex"} /\ ev.result \in {"notfound", "error"}
    \/ ev.op = "store" /\ ev.result = "alert"
EndsComparison == EndsSellHandling \/ (ev.op = "fetch" /\ ev.result = "nochange")

C3_ExactlyOneAlertPerSell ==
    EndsSellHandling =>
        /\ Len(ev.notified) = 1
        /\ ev.notified[1].recipients = alertSubscribers
        /\ ev.notified[1].alert.amountSold = ev.prev - ev.obs
        /\ ev.notified[1].alert.previousBalance = ev.prev
        /\ ev.notified[1].alert.newBalance = ev.obs
        /\ (ev.prev = 1000 /\ ev.obs = 950) =>
               /\ ev.notified[1].alert.amountSold = 50
               /\ ev.notified[1].alert.changePercentage = "5.00"

\* The 1000 -> 950 drop for which the transaction history names no recent
\* transfer of the wallet: the call ends and nobody was told.
C3_Witness ==
    /\ ev.op = "history" /\ ev.result = "notfound"
    /\ ev.prev = 1000 /\ ev.obs = 950 /\ ev.notified = <<>>
    /\ alertSubscribers # <<>>

\* C4: a poll in which the provider reports a balance of exactly 0 for a
\* wallet with a positive baseline is a sell: sell handling starts (and the
\* call ends with lastBalance 0); it is not skipped.
C4_ZeroBalanceIsSell ==
    /\ (ev.op = "fetch" /\ ev.prev > 0 /\ ev.ret.observed /\ ev.ret.val = 0) =>
           /\ ev.result = "sell"
           /\ \E c \in InFlight : c.oid = ev.oid /\ c.pc = "history" /\ c.cur = 0
    /\ (EndsSellHandling /\ ev.obs = 0 /\ ev.oid \in DOMAIN heap) =>
           heap[ev.oid].lastBalance = 0

\* getTokenBalance returned the 0 the provider reported; the baseline of 1000
\* is still there and no sell handling started.
C4_Witness ==
    /\ ev.op = "fetch" /\ ev.prev = 1000 /\ ev.result = "skipped"
    /\ ev.ret = [kind |-> "number", val |-> 0, observed |-> TRUE]
    /\ ev.net = 0 /\ InFlight = {}
    /\ ev.oid \in DOMAIN heap /\ heap[ev.oid].lastBalance = 1000

C8_AtMostOneTimer ==
    /\ [][(ev'.op = "startMonitoring" /\ tokenAddress # Undefined /\ blockchain # Undefined
              /\ DOMAIN monitoredWallets # {}) =>
             /\ ev'.result = "true" /\ isMonitoring'
             /\ Cardinality(intervals') = 1
             /\ monitorInterval' \in intervals']_vars
    /\ [][(ev.op = "startMonitoring" /\ ev.result = "true" /\ ev'.op = "startMonitoring") =>
             /\ ev'.result = "true" /\ ev'.timer = NoTimer
             /\ intervals' = intervals /\ Cardinality(intervals') = 1]_vars
    /\ [](Cardinality(intervals) <= 1)

\* The second of two startMonitoring() calls: it returned true and set up no
\* timer.
C8_Witness ==
    /\ ev.op = "startMonitoring" /\ ev.result = "true" /\ ev.timer = NoTimer
    /\ isMonitoring /\ Cardinality(intervals) = 1

\* C8 as stated, for an initialize that was given a token address and a
\* network: startMonitoring() right after an initialize that returned true
\* returns true and leaves exactly one timer active.
C8_StartAfterAnySuccessfulInitialize ==
    [][(ev.op = "initialize" /\ ev.result = "true"
          /\ tokenAddress # Undefined /\ blockchain # Undefined
          /\ ev'.op = "startMonitoring") =>
          ev'.result = "true" /\ Cardinality(intervals') = 1]_vars

\* C9: initialize throws when `wallets` is no array and returns true with an
\* empty map when it is an empty array; either way it starts no request:
\* no call is added, nothing is posted.
C9_InitializeRejectsNonArray ==
    [][(ev'.op = "initialize" /\ (~ev'.wallets.isArray \/ ev'.wallets.items = <<>>)) =>
          /\ ev'.result = (IF ev'.wallets.isArray THEN "true" ELSE "throw")
          /\ DOMAIN monitoredWallets' = {}
          /\ calls' = calls
          /\ ev'.net = 0 /\ ev'.posts = 0 /\ ev'.notified = <<>>]_vars

C9_Witness ==
    /\ ev.op = "initialize" /\ ~ev.wallets.isArray /\ ev.result = "throw"
    /\ DOMAIN monitoredWallets = {} /\ calls # EmptyBag

\* The keys the claim expects after populating from `wallets`.
LowercasedValidAddresses(wallets) ==
    {toLowerCase(wallets.items[i].address) :
        i \in {j \in DOMAIN wallets.items : ~IsInvalidWallet(wallets.items[j])}}

\* C10: after initialize or startMonitoringLegacy returned true, the map has
\* exactly one entry per distinct lowercased address of the valid wallets
\* passed, and every entry has lastBalance = null, lastChecked = null,
\* alertCount = 0 and totalVolumeSold = 0.
C10_MapIsFreshAndLowercased ==
    (ev.op \in {"initialize", "startMonitoringLegacy"} /\ ev.result = "true") =>
        /\ DOMAIN monitoredWallets = LowercasedValidAddresses(ev.wallets)
        /\ \A k \in DOMAIN monitoredWallets :
               /\ heap[monitoredWallets[k]].lastBalance = Null
               /\ heap[monitoredWallets[k]].lastChecked = Null
               /\ heap[monitoredWallets[k]].alertCount = 0
               /\ heap[monitoredWallets[k]].totalVolumeSold = 0

\* startMonitoringLegacy returned true: its wallet is stored under the
\* address as written, next to an entry of an earlier initialize.
C10_Witness ==
    /\ ev.op = "startMonitoringLegacy" /\ ev.result = "true"
    /\ DOMAIN monitoredWallets = {"0xA", "0xb"}

\* C10 for initialize alone.
C10_InitializeAlone ==
    (ev.op = "initialize" /\ ev.result = "true") =>
        /\ DOMAIN monitoredWallets = LowercasedValidAddresses(ev.wallets)
        /\ \A k \in DOMAIN monitoredWallets :
               /\ heap[monitoredWallets[k]].lastBalance = Null
               /\ heap[monitoredWallets[k]].lastChecked = Null

\* The operations that start polling.
StartOperations == {"startMonitoring", "startMonitoringLegacy"}

\* C11 (as amended): after stopMonitoring() no timer is active, isMonitoring is
\* false and the map is empty; the interval callback runs only while a timer
\* is active, and a timer becomes active only by a startMonitoring() or
\* startMonitoringLegacy() that returns true; while the map is empty, which it
\* stays until initialize or startMonitoringLegacy fills it, startMonitoring()
\* does not return true and starts no timer.
C11_StopCancelsPolling ==
    /\ [](ev.op = "stopMonitoring" =>
             /\ intervals = {} /\ monitorInterval = NoTimer
             /\ ~isMonitoring /\ DOMAIN monitoredWallets = {})
    /\ [][ev'.op = "tick" => intervals # {}]_vars
    /\ [][(intervals = {} /\ intervals' # {}) =>
             ev'.op \in StartOperations /\ ev'.result = "true"]_vars
    /\ [][(DOMAIN monitoredWallets = {} /\ ev'.op = "startMonitoring") =>
             /\ ev'.result # "true" /\ ev'.timer = NoTimer
             /\ intervals' = intervals /\ isMonitoring' = isMonitoring]_vars
    /\ [][(DOMAIN monitoredWallets = {} /\ DOMAIN monitoredWallets' # {}) =>
             ev'.op \in {"initialize", "startMonitoringLegacy"}]_vars

\* stopMonitoring() cancelled the timer of a monitor that had a poll in flight.
C11_Witness ==
    /\ ev.op = "stopMonitoring" /\ ev.stopped # NoTimer /\ ev.cleared = 1
    /\ intervals = {} /\ ~isMonitoring /\ calls # EmptyBag

\* C11 as stated: once polling has stopped, only a startMonitoring() that
\* succeeds starts it again.
C11_OnlyStartMonitoringRestarts ==
    [][(intervals = {} /\ intervals' # {}) =>
          ev'.op = "startMonitoring" /\ ev'.result = "true"]_vars

\* C12: stopMonitoring() on a monitor that is not monitoring changes nothing,
\* the map that initialize filled included.
C12_StopWhenIdleIsNoOp ==
    [][(ev'.op = "stopMonitoring" /\ ~isMonitoring) =>
          UNCHANGED <<tokenAddress, blockchain, monitoredWallets, heap, isMonitoring,
                      monitorInterval, intervals, calls, alertSubscribers,
                      updateSubscribers, now, enhancedVars>>]_vars

\* stopMonitoring() cleared no timer and removed the wallet initialize stored.
C12_Witness ==
    /\ ev.op = "stopMonitoring" /\ ev.stopped = NoTimer /\ ev.cleared = 1
    /\ ev.initialized /\ DOMAIN monitoredWallets = {} /\ now = 0

\* a comes before b in the list s.
Precedes(s, a, b) ==
    \E i, j \in 1..Len(s) : i < j /\ s[i] = a /\ s[j] = b

\* No element occurs twice in the list s.
IsSet(s) == \A i, j \in 1..Len(s) : s[i] = s[j] => i = j

C14_SubscribersAreSets ==
    /\ [](IsSet(alertSubscribers) /\ IsSet(updateSubscribers))
    /\ [][ev'.op = "subscribe" =>
             /\ Range(alertSubscribers') = Range(alertSubscribers) \cup {ev'.result}
             /\ ev'.result \in Range(alertSubscribers) =>
                    alertSubscribers' = alertSubscribers]_vars
    /\ [][ev'.op = "unsubscribe" =>
             /\ Range(alertSubscribers') = Range(alertSubscribers) \ {ev'.result}
             /\ ev'.result \notin Range(alertSubscribers) =>
                    alertSubscribers' = alertSubscribers]_vars
    /\ [][ev'.op = "onWalletUpdate" =>
             /\ Range(updateSubscribers') = Range(updateSubscribers) \cup {ev'.result}
             /\ ev'.result \in Range(updateSubscribers) =>
                    updateSubscribers' = updateSubscribers]_vars
    /\ [][ev'.op = "offWalletUpdate" =>
             /\ Range(updateSubscribers') = Range(updateSubscribers) \ {ev'.result}
             /\ ev'.result \notin Range(updateSubscribers) =>
                    updateSubscribers' = updateSubscribers]_vars
    /\ [][ev'.op = "store" =>
             /\ ev'.notified[1].recipients = alertSubscribers
             /\ IsSet(ev'.notified[1].recipients)]_vars
    /\ [][ev'.op = "notifyWalletUpdate" =>
             ev'.updated = updateSubscribers /\ IsSet(ev'.updated)]_vars

\* cb1, registered before cb2, has just been registered again and is held once.
C14_Witness ==
    /\ ev.op = "subscribe" /\ ev.result = "cb1"
    /\ alertSubscribers = <<"cb1", "cb2">>

\* C15: a dispatch during which callbacks subscribe or unsubscribe ends, and
\* has invoked no callback more than once.
C15_DispatchEndsAndInvokesOnce ==
    ev.op = "store" => ev.notified[1].complete /\ IsSet(ev.notified[1].recipients)

\* A callback that unsubscribes and registers itself again was invoked a second
\* time in the same dispatch, which has not ended.
C15_Witness ==
    /\ ev.op = "store" /\ ev.result = "looping"
    /\ ev.notified[1].subscribers = <<"cbRejoins">>
    /\ Len(ev.notified[1].recipients) > 1
    /\ Hung

\* C16: a step that ends a wallet check in which a balance was obtained has
\* invoked every wallet-update subscriber exactly once.
C16_OneUpdatePerPolledWallet ==
    \/ ev.op = "fetch" /\ ev.result \in {"baseline", "nochange"}
    \/ EndsSellHandling
    => ev.updated = updateSubscribers

\* A wallet check compared the balance it obtained while a wallet-update
\* subscriber was registered, and invoked nobody.
C16_Witness ==
    /\ EndsComparison /\ ev.ret.observed
    /\ updateSubscribers # <<>> /\ ev.updated = <<>>

\* C17: getStatus() runs in every state and changes nothing; it reports
\* isMonitoring, the size of the map as walletCount and the greatest
\* lastChecked of the wallets as lastChecked, and on a monitor that was never
\* initialized isMonitoring = false, walletCount = 0, connected = false and
\* lastChecked = 0.
C17_GetStatusIsPure ==
    /\ [](ev.op = "getStatus" =>
             LET st == ev.status[1]
             IN  /\ ev.result = "ok"
                 /\ st.isMonitoring = isMonitoring
                 /\ st.walletCount = Cardinality(DOMAIN monitoredWallets)
                 /\ "lastChecked" \in DOMAIN st
                 /\ \A o \in MapValues(monitoredWallets) :
                        heap[o].lastChecked <= st.lastChecked
                 /\ st.lastChecked = 0
                        \/ \E o \in MapValues(monitoredWallets) :
                               heap[o].lastChecked = st.lastChecked
                 /\ ~ev.initialized =>
                        /\ ~st.isMonitoring /\ st.walletCount = 0
                        /\ ~st.connected /\ st.lastChecked = 0)
    /\ [][ev'.op = "getStatus" =>
             UNCHANGED <<tokenAddress, blockchain, monitoredWallets, heap, isMonitoring,
                         monitorInterval, intervals, calls, alertSubscribers,
                         updateSubscribers, enhancedVars, now>>]_vars

\* getStatus() of a monitor that was never initialized returned an object
\* without lastChecked, whose lastCheck is Math.max() of nothing.
C17_Witness ==
    /\ ev.op = "getStatus" /\ ~ev.initialized
    /\ "lastChecked" \notin DOMAIN ev.status[1]
    /\ ev.status[1].lastCheck = NegInfinity

\* C18: the step that hands out the alert of a sell raises the wallet's
\* alertCount by one and its totalVolumeSold by the alert's usdValue.
C18_SellCountsAlert ==
    [][(ev'.op = "store" /\ ev'.result = "alert") =>
          /\ heap'[ev'.oid].alertCount = heap[ev'.oid].alertCount + 1
          /\ IsNum(ev'.notified[1].alert.usdValue) =>
                 heap'[ev'.oid].totalVolumeSold =
                     heap[ev'.oid].totalVolumeSold + ev'.notified[1].alert.usdValue]_vars

\* An alert worth 50 was handed out and stored; the wallet's alertCount and
\* totalVolumeSold are still 0.
C18_Witness ==
    /\ ev.op = "store" /\ ev.result = "alert"
    /\ ev.notified[1].alert.usdValue = 50
    /\ heap[ev.oid].alertCount = 0 /\ heap[ev.oid].totalVolumeSold = 0

\* C19: no step other than initialize and stopMonitoring lowers the alertCount
\* or the totalVolumeSold of a wallet object.
C19_CountersNeverDecrease ==
    [][ev'.op \notin {"initialize", "stopMonitoring"} =>
          \A o \in DOMAIN heap \cap DOMAIN heap' :
              /\ heap'[o].alertCount >= heap[o].alertCount
              /\ "totalVolumeSold" \in DOMAIN heap[o] =>
                     heap'[o].totalVolumeSold >= heap[o].totalVolumeSold]_vars

\* A sell to a DEX router was reported for a monitored wallet, whose alertCount
\* went up to 1.
C19_Witness ==
    /\ ev.op = "onmessage" /\ ev.result = "alert"
    /\ ev.oid \in DOMAIN heap /\ heap[ev.oid].alertCount = 1

\* C20: sell handling does not end at the price lookup, and the alert it hands
\* out has a number as usdValue, 0 when there was no price.
C20_PricingMissStillAlerts ==
    /\ ev.op = "usd" => ev.result # "error"
    /\ (ev.op = "store" /\ ev.result = "alert") => IsNum(ev.notified[1].alert.usdValue)

\* The price lookup threw for a 1000 -> 950 drop with a matching transfer: the
\* call ended with no alert, and lastBalance is 950.
C20_Witness ==
    /\ ev.op = "usd" /\ ev.result = "error" /\ ev.notified = <<>>
    /\ ev.prev = 1000 /\ heap[ev.oid].lastBalance = 950
    /\ alertSubscribers # <<>>

\* The price lookup returned null: the alert was handed out with usdValue null.
C20_WitnessNoPrice ==
    /\ ev.op = "store" /\ ev.result = "alert"
    /\ ev.notified[1].alert.usdValue = Null
    /\ ev.notified[1].recipients # <<>>

\* The calls in flight for wallets other than the one the last step was about.
OtherCalls == {c \in InFlight : c.oid # ev.oid}

\* After the post of a sender returned the next sender posts; after the last
\* post the subscribers were told and the wallet holds the balance observed.
C21_DetectionAfterSinks ==
    /\ ev.op \in {"telegram", "dashboard"} =>
           \E c \in InFlight :
               /\ c.oid = ev.oid
               /\ c.pc = (IF ev.op = "telegram" THEN "dashboard" ELSE "store")
    /\ ev.op = "store" =>
           /\ Len(ev.notified) = 1
           /\ ev.notified[1].recipients = ev.notified[1].subscribers
           /\ ev.notified[1].alert.newBalance = ev.obs
           /\ heap[ev.oid].lastBalance = ev.obs
\* A step of a sender leaves the checks of the other wallets in flight.
C21_OtherChecksGoOn ==
    ev'.op \in {"telegram", "dashboard", "store"} =>
        \A d \in InFlight :
            d.oid # ev'.oid => CopiesIn(d, calls') = CopiesIn(d, calls)

\* C21: a failed post to an alert sink (the Telegram message, the dashboard
\* post, the stored alert) changes nothing of detection: the next sender still
\* posts, the subscribers are told of the alert once the last post returned,
\* the wallet's lastBalance becomes the balance observed, and the checks of
\* the other wallets of the poll cycle stay in flight.
C21_SinkFailureKeepsDetection ==
    []C21_DetectionAfterSinks /\ [][C21_OtherChecksGoOn]_vars

\* Every sink failed for the alert of one wallet (the message could not even
\* be posted or the post failed), a subscriber was told, and the check of the
\* other wallet is still in flight.
C21_Witness ==
    /\ ev.op = "store"
    /\ \A i \in 1..Len(ev.notified[1].sinks) : ev.notified[1].sinks[i] = "failed"
    /\ ev.notified[1].recipients = <<"cb1">>
    /\ heap[ev.oid].lastBalance = 950
    /\ OtherCalls # {}

\* Every wallet of the map has never been checked with success.
NeverChecked == \A k \in DOMAIN monitoredWallets : heap[monitoredWallets[k]].lastChecked = Null
\* The last check of a poll cycle has just failed, as every check before it,
\* while the monitor is polling.
CycleFailed ==
    /\ ev.op = "fetch" /\ ev.result = "error"
    /\ calls = EmptyBag /\ monitoredWallets # EmptyMap /\ NeverChecked
    /\ isMonitoring /\ intervals # {}

\* getStatus() called right after a failed cycle reports connected = false
\* and leaves the monitor polling.
C22_FailedCycleStep ==
    (CycleFailed /\ ev'.op = "getStatus") =>
        /\ ev'.status[1].connected = FALSE
        /\ isMonitoring' /\ intervals' # {}

\* C22: when every wallet check of a poll cycle has failed, a getStatus()
\* called next reports connected = false, while the monitor keeps running
\* (isMonitoring stays true, the timer stays scheduled).
C22_FailedCycleReportsDisconnected == [][C22_FailedCycleStep]_vars

\* getStatus() after a tick, while the monitor polls two wallets of which no
\* check has succeeded so far: it reports connected = true.
C22_Witness ==
    /\ ev.op = "getStatus" /\ ev.status[1].connected = TRUE
    /\ ev.status[1].isMonitoring /\ ev.status[1].walletCount = 2 /\ ev.status[1].lastChecked = 0
    /\ isMonitoring /\ intervals # {} /\ calls = EmptyBag /\ now > 0

\* The call of the service that ran last and what it returned.
LastCall == ev.analysis[CHOOSE i \in 1..Len(ev.analysis) :
                            /\ ev.analysis[i].done
                            /\ \A j \in (i + 1)..Len(ev.analysis) : ~ev.analysis[j].done]
Returned == LastCall.result[1]
Ran(op) == ev.op = op /\ ev.analysis # <<>>

\* C23: classifyWallets on any list of holders returns buckets that hold every
\* holder of the list exactly once, so that the sizes of the three buckets add
\* up to the number of holders; a holder whose classification raises an error,
\* a malformed record included, is entered with type 'unknown' and the others
\* are classified: the call never throws.
C23_EveryHolderInOneBucket ==
    (Ran("classifyWallets") /\ LastCall.args.holders.isArray) =>
        LET holders == LastCall.args.holders.items
            all == Returned.teamWallets \o Returned.bundleWallets \o Returned.regularWallets
        IN  /\ ~Returned.threw
            /\ Len(all) = Len(holders)
            /\ \A i \in 1..Len(holders) :
                   \E j \in 1..Len(all) :
                       /\ all[j].address = holders[i].address
                       /\ all[j].percentage = holders[i].percentage
                       /\ IsMalformed(holders[i]) => all[j].type = "unknown"

\* A list whose second holder has no address: classifyWallets has thrown at
\* the log of the first five holders and classified nobody.
C23_Witness ==
    /\ Ran("classifyWallets") /\ LastCall.args.holders.isArray
    /\ Len(LastCall.args.holders.items) = 2
    /\ ~IsMalformed(LastCall.args.holders.items[1])
    /\ LastCall.args.holders.items[2] = Holder(Undefined, 50)
    /\ Returned.threw /\ Returned.regularWallets = <<>>

\* C24: classifyWallet applies its rules in a fixed order and the first that
\* matches decides.  A percentage above 0.1 gives 'team', with riskLevel high
\* exactly when the percentage is above 10 and medium otherwise, whatever the
\* deployer funded and whatever the transactions are, and without a request
\* to the explorer.  Otherwise a known deployer that funded the wallet gives
\* 'bundle'/high (no deployer: the check is skipped, no request is sent for
\* it); otherwise a bundle pattern gives 'bundle'/medium; otherwise the wallet
\* is 'regular'/low.  A holder of 5 % funded by the deployer is 'team'.
C24_FirstRuleWins ==
    (Ran("classifyWallet") /\ ~Returned.threw) =>
        LET a == LastCall.args
            r == Returned
            pct == a.holder.percentage
            isTeam == pct # NaN /\ pct > 1
            funded == /\ a.deployer # Undefined
                      /\ checkDeployerFunding(a.funding, a.deployer)
            pattern == detectBundlePattern(
                           getWalletTransactions(a.history, a.holder.address), a.clock)
        IN  /\ isTeam => /\ r.type = "team" /\ r.requests = 0
                         /\ r.riskLevel = (IF pct > 100 THEN "high" ELSE "medium")
            /\ (~isTeam /\ funded) => (r.type = "bundle" /\ r.riskLevel = "high")
            /\ (~isTeam /\ ~funded /\ pattern.isBundle)
                   => (r.type = "bundle" /\ r.riskLevel = "medium")
            /\ (~isTeam /\ ~funded /\ ~pattern.isBundle)
                   => (r.type = "regular" /\ r.riskLevel = "low")
            /\ (~isTeam /\ a.deployer = Undefined) => r.requests = 1
            /\ (pct = 50 /\ funded) => r.type = "team"

\* The holder of 5 % whose only transaction came from the deployer.
C24_Witness ==
    /\ Ran("classifyWallet")
    /\ LastCall.args.holder.percentage = 50 /\ LastCall.args.deployer = "0xD"
    /\ checkDeployerFunding(LastCall.args.funding, "0xD")
    /\ Returned.type = "team" /\ Returned.riskLevel = "medium" /\ Returned.requests = 0

\* Two calls of classifyWallet have run on the same holder and deployer, with
\* the same answers of the explorer.
RanTwiceOnSameData ==
    /\ Ran("classifyWallet") /\ Len(ev.analysis) = 2
    /\ ev.analysis[1].done /\ ev.analysis[2].done
    /\ \A f \in {"holder", "deployer", "funding", "history"} :
           ev.analysis[1].args[f] = ev.analysis[2].args[f]

\* C25: classification is deterministic: two runs of classifyWallet on the
\* same holder and deployer, the explorer answering the same, give the same
\* type and the same riskLevel, whenever the runs happen.
C25_SameDataSameClassification ==
    RanTwiceOnSameData =>
        /\ ev.analysis[1].result[1].type = ev.analysis[2].result[1].type
        /\ ev.analysis[1].result[1].riskLevel = ev.analysis[2].result[1].riskLevel

\* A wallet with one purchase and one sale: 'bundle' when classified within a
\* day of the sale, 'regular' when classified a day later.
C25_Witness ==
    /\ RanTwiceOnSameData
    /\ ev.analysis[1].args.clock = OneDay /\ ev.analysis[2].args.clock = 2 * OneDay
    /\ ev.analysis[1].result[1].type = "bundle"
    /\ ev.analysis[2].result[1].type = "regular"

\* C26: assessRisk depends only on the sums T and B of the percentages of the
\* team and bundle wallets: riskLevel is 'high' when T > 20 or B > 15,
\* otherwise 'medium' when T > 10 or B > 10, otherwise 'low' (25 and 0: high;
\* 12 and 0: medium; 5 and 5: low; 20, 15 and 10 themselves belong to the
\* lower level), and totalRiskySupply is T + B.
C26_RiskFromSums ==
    Ran("assessRisk") =>
        LET T == SumPercentage(LastCall.args.teamWallets)
            B == SumPercentage(LastCall.args.bundleWallets)
        IN  /\ Returned.riskLevel =
                   (IF T > 200 \/ B > 150 THEN "high"
                    ELSE IF T > 100 \/ B > 100 THEN "medium" ELSE "low")
            /\ Returned.totalRiskySupply = T + B
            /\ (T = 250 /\ B = 0) => Returned.riskLevel = "high"
            /\ (T = 120 /\ B = 0) => Returned.riskLevel = "medium"
            /\ (T = 50 /\ B = 50) => Returned.riskLevel = "low"
            /\ (T = 200 /\ B = 150) => Returned.riskLevel = "medium"
            /\ (T = 100 /\ B = 100) => Returned.riskLevel = "low"

\* Team and bundle wallets that sum to exactly 20 % and 15 %: medium.
C26_Witness ==
    /\ Ran("assessRisk")
    /\ Len(LastCall.args.teamWallets) = 2
    /\ Returned.teamSupplyPercentage = 200 /\ Returned.bundleSupplyPercentage = 150
    /\ Returned.riskLevel = "medium" /\ Returned.totalRiskySupply = 350

\* holder's percentage is balance / total supply * 100 for the decimals and
\* the total supply of metadata (0 when the supply is 0 or unknown), and its
\* balance is the raw balance over 10^decimals.
PercentageFrom(holder, metadata) ==
    LET decimals == IF metadata.decimals = Null THEN 18 ELSE metadata.decimals
        supply == metadata.totalSupply
    IN  /\ holder.balance = [m |-> holder.balanceRaw, d |-> decimals]
        /\ IF supply # Null /\ supply > 0
           THEN holder.percentage * supply = holder.balanceRaw * 1000
           ELSE holder.percentage = 0

\* C27: every holder getTopHolders returns, from the owners list or from the
\* transfers of the fallback, has percentage = balance / totalSupplyHuman * 100
\* when the total supply is positive and 0 when it is 0 or unknown, balance
\* and totalSupplyHuman being the raw values over 10^decimals of the metadata
\* fetched for that list.
C27_PercentageOfSupply ==
    Ran("getTopHolders") =>
        \A i \in 1..Len(Returned.holders) :
            PercentageFrom(Returned.holders[i], Returned.snapshot)

\* Two holders found by the fallback for a token whose total supply is
\* unknown: both have percentage 0.
C27_Witness ==
    /\ Ran("getTopHolders") /\ Returned.from = "transactions"
    /\ Returned.snapshot.totalSupply = Null
    /\ Len(Returned.holders) = 2
    /\ Returned.holders[1].balanceRaw = 500 /\ Returned.holders[1].percentage = 0
    /\ Returned.holders[2].percentage = 0

\* A holder with half of the supply of 1000, listed by the owners request.
C27_WitnessOwners ==
    /\ Ran("getTopHolders") /\ Returned.from = "owners"
    /\ Returned.holders[1].balanceRaw = 500 /\ Returned.holders[1].percentage = 500

\* C28: in what analyzeToken returns, every holder's percentage was computed
\* from the decimals and the total supply of the metadata the result reports,
\* also when the provider's answer changes between the metadata requests of
\* one analysis.
C28_PercentagesFromReportedMetadata ==
    (Ran("analyzeToken") /\ ~Returned.threw) =>
        \A i \in 1..Len(Returned.holders) :
            PercentageFrom(Returned.holders[i], Returned.metadata)

\* The provider reports a supply of 2000 to analyzeToken and of 1000 to
\* getTopHolders: the holder of 500 is returned with 50 % next to metadata
\* under which it holds 25 %.
C28_Witness ==
    /\ Ran("analyzeToken") /\ ~Returned.threw
    /\ Returned.metadata.totalSupply = 2000
    /\ Returned.holdersFrom = "owners"
    /\ Returned.holders[1].balanceRaw = 500 /\ Returned.holders[1].percentage = 500

\* The metadata requests one analysis makes after its own: getTopHolders asks
\* when the owners request listed somebody, the fallback asks when it runs.
HoldersMetadataAsked(a) == a.owners.ok /\ Len(a.owners.result) > 0
FallbackRan(a) ==
    \/ ~HoldersMetadataAsked(a)
    \/ ~(a.holdersMetadata.ok /\ a.holdersMetadata.found)
    \/ \E i \in 1..Len(a.owners.result) : a.owners.result[i].owner_address = Undefined
MetadataFetchFailed(a) ==
    \/ ~(a.metadata.ok /\ a.metadata.found)
    \/ HoldersMetadataAsked(a) /\ ~(a.holdersMetadata.ok /\ a.holdersMetadata.found)
    \/ FallbackRan(a) /\ ~(a.fallbackMetadata.ok /\ a.fallbackMetadata.found)

\* C29: a failure of the metadata provider is fatal: when any metadata request
\* made during analyzeToken fails, analyzeToken throws and returns no
\* classification; a failed deployer lookup only gives deployer = null and
\* the analysis goes on.
C29_MetadataFailureIsFatal ==
    Ran("analyzeToken") =>
        /\ MetadataFetchFailed(LastCall.args) => Returned.threw
        /\ (~MetadataFetchFailed(LastCall.args) /\ ~LastCall.args.deployer.ok) =>
               (~Returned.threw /\ Returned.deployer = Undefined)

\* The metadata request of analyzeToken is answered, the one of getTopHolders
\* and the one of the fallback fail: the analysis returns no holder and a low
\* risk.
C29_Witness ==
    /\ Ran("analyzeToken")
    /\ LastCall.args.metadata.ok
    /\ HoldersMetadataAsked(LastCall.args)
    /\ ~LastCall.args.holdersMetadata.ok /\ ~LastCall.args.fallbackMetadata.ok
    /\ ~Returned.threw /\ Returned.holders = <<>>
    /\ Returned.classification.riskAssessment.riskLevel = "low"

\* The deployer lookup fails and every metadata request is answered: the
\* analysis returns with deployer = null and the holders classified.
C29_WitnessDeployer ==
    /\ Ran("analyzeToken") /\ ~LastCall.args.deployer.ok
    /\ ~MetadataFetchFailed(LastCall.args)
    /\ ~Returned.threw /\ Returned.deployer = Undefined
    /\ Returned.classification.teamWallets # <<>>

\* C30: every alert the monitor emits carries as previousBalance the
\* lastBalance the wallet had when the poll that detected the sell compared
\* the balances (the balance observed plus the amount sold), with
\* previousBalance - newBalance = amountSold: lastBalance is not overwritten
\* before the alert is built, however poll cycles and sell handling interleave.
C30_AlertCarriesBalanceBeforePoll ==
    (ev.op = "store" /\ ev.notified # <<>>) =>
        LET alert == ev.notified[1].alert
        IN  /\ alert.newBalance = ev.obs
            /\ alert.previousBalance - alert.newBalance = alert.amountSold
            /\ alert.previousBalance = ev.obs + alert.amountSold

\* Two ticks saw the drop from 1000 to 950 before either check finished: the
\* alert of the second was built after the first had stored 950, and says
\* that 50 were sold from a balance of 950 leaving 950.
C30_Witness ==
    /\ ev.op = "store" /\ ev.notified # <<>>
    /\ ev.notified[1].alert.amountSold = 50
    /\ ev.notified[1].alert.previousBalance = 950
    /\ ev.notified[1].alert.newBalance = 950
    /\ ev.notified[1].alert.changePercentage = "5.26"

\* The number of checkWalletChanges calls in flight for the wallet object oid.
ChecksIn(bag, oid) ==
    BagCardinality([c \in {d \in BagToSet(bag) : d.oid = oid} |-> CopiesIn(c, bag)])
ChecksInFlight(oid) == ChecksIn(calls, oid)

\* C31: the poll cycles of one monitor never overlap: a tick that fires while
\* a cycle is still waiting for a balance or inside sell handling is skipped
\* or queued, so that at no time two checkWalletChanges calls are in flight
\* for the same wallet.
C31_CyclesNeverOverlap ==
    \A c \in InFlight : ChecksInFlight(c.oid) <= 1

\* The interval fired a second time while the check of the first tick was
\* still waiting for the balance: two checks of the one wallet are in flight.
C31_Witness ==
    /\ ev.op = "tick" /\ now = 2
    /\ \E c \in InFlight : c.pc = "fetch" /\ ChecksInFlight(c.oid) = 2

\* The last step handed an alert to the subscribers.
Emitted == ev.op = "store" /\ ev.notified # <<>>
\* Two alerts in a row for the same wallet object and the same observed
\* balance: no balance was fetched between them, so both report one drop.
C32_SecondAlertForDrop ==
    (Emitted /\ ev'.op = "store" /\ ev'.notified # <<>> /\ ev'.oid = ev.oid)
        => ev'.notified[1].alert.newBalance # ev.notified[1].alert.newBalance

\* C32: one drop of a wallet's balance from p to n is alerted at most once:
\* the subscribers get at most one alert for it, however timer ticks, slow
\* balance requests and slow sell handling interleave; concurrent checks of
\* one wallet do not race on its lastBalance.
C32_DropAlertedOnce == [][C32_SecondAlertForDrop]_vars

\* An alert for the balance 950 is handed to the subscriber although the
\* wallet's lastBalance was 950 already: an overlapping check had reported the
\* same drop.
C32_Witness ==
    /\ Emitted /\ ev.prev = 950 /\ ev.obs = 950
    /\ ev.notified[1].alert.amountSold = 50
    /\ ev.notified[1].recipients = <<"cb1">>

\* The wallet objects of the map.
Monitored == MapValues(monitoredWallets)

\* A tick starts one check for every wallet of the map; the return of a
\* balance request ends the check that made it (no second request) and
\* leaves the checks and the records of the other wallets as they are.
C33_StepIsolated ==
    /\ ev'.op = "tick" =>
           \A oid \in Monitored : ChecksIn(calls', oid) = ChecksIn(calls, oid) + 1
    /\ ev'.op = "fetch" =>
           /\ ChecksIn(calls', ev'.oid) = ChecksIn(calls, ev'.oid) - 1
           /\ \A oid \in Monitored \ {ev'.oid} :
                  /\ ChecksIn(calls', oid) = ChecksIn(calls, oid)
                  /\ heap'[oid] = heap[oid]

\* C33: within a poll cycle a balance request that throws, or answers with
\* something malformed, for one wallet keeps no other wallet of the cycle
\* from completing its check: every wallet of the cycle's snapshot has its
\* balance requested exactly once, without retry, and the cycle goes on.
C33_FailedFetchIsolated == [][C33_StepIsolated]_vars

\* The request of one wallet failed, the check of the other wallet is still
\* in flight, and then completes with a balance.
C33_Witness ==
    /\ ev.op = "fetch" /\ ev.result = "error"
    /\ \E c \in InFlight : c.oid # ev.oid /\ c.pc = "fetch"
    /\ ChecksInFlight(ev.oid) = 0

\* C34: the cycle the timer of RealTimeMonitor runs is staggered: the wallets
\* are checked in batches of at most 3, a batch starting only when every check
\* of the batch before has completed, so that at most 3 balance checks of one
\* cycle are in flight at any time.
C34_AtMostThreeChecksInFlight == BagCardinality(calls) <= 3

\* One tick on a monitor of four wallets: four checks are waiting for their
\* balance at the same time.
C34_Witness ==
    /\ ev.op = "tick" /\ ev.net = 4
    /\ BagCardinality(calls) = 4
    /\ \A c \in InFlight : c.pc = "fetch"

\* The checks in flight, as many as there are.
StartedChecks(bag) == BagCardinality(bag)

\* C35: when stopMonitoring() is called while a poll cycle is in flight, the
\* checks already started are left to finish (the stop cancels none of them),
\* but no further check of that cycle and no further cycle is started while the
\* monitor is stopped.
C35_StopStep ==
    /\ ev'.op = "stopMonitoring" => calls' = calls
    /\ ~isMonitoring => StartedChecks(calls') <= StartedChecks(calls)
    /\ (~isMonitoring /\ ev'.op = "fetch")
           => StartedChecks(calls') = StartedChecks(calls) - 1

C35_StopLetsChecksFinish == [][C35_StopStep]_vars

\* A check started before the stop has completed after it while another of the
\* same cycle is still in flight.
C35_Witness ==
    /\ ev.op = "fetch" /\ ev.result # "error"
    /\ ~isMonitoring /\ intervals = {} /\ monitoredWallets = EmptyMap
    /\ StartedChecks(calls) = 2

\* C36: EnhancedRealTimeMonitor shuts down cleanly: after stopMonitoring() none
\* of the periodic callbacks startMonitoring started is still scheduled, neither
\* the balance-poll timer nor the coordinated-activity timer, and over start,
\* stop, start there is one timer of each kind, never more.
C36_CleanShutdown ==
    /\ ev.op = "stopMonitoring" => (intervals = {} /\ activityIntervals = {})
    /\ Cardinality(intervals) <= 1
    /\ Cardinality(activityIntervals) <= 1

\* stopMonitoring() has cleared the poll timer of a monitor that had started
\* both timers.
C36_Witness ==
    /\ ev.op = "stopMonitoring" /\ ev.stopped # NoTimer
    /\ StartPending = {} /\ intervals = {}
    /\ Cardinality(activityIntervals) = 1

\* C37: in RealTimeMonitor, after any sequence of initialize, startMonitoring,
\* startMonitoringLegacy and stopMonitoring calls, failed ones included,
\* isMonitoring is true exactly when a poll timer is scheduled (monitorInterval
\* is not null), and a monitor that is monitoring has been initialized with a
\* token address.
C37_MonitoringIffTimerAndInitialized ==
    /\ isMonitoring <=> monitorInterval # NoTimer
    /\ isMonitoring => tokenAddress # Undefined

\* startMonitoringLegacy has started the poll timer.
C37_Witness ==
    /\ ev.op = "startMonitoringLegacy" /\ ev.result = "true"
    /\ isMonitoring /\ monitorInterval # NoTimer /\ monitorInterval \in intervals

\* A step that is a rejected initialize leaves the wallets, the token address
\* and the blockchain as they were, and startMonitoring() fails after it as it
\* failed before it.
RejectedInitializeStep ==
    (ev'.op = "initialize" /\ ev'.result = "throw")
        => /\ UNCHANGED <<monitoredWallets, tokenAddress, blockchain>>
           /\ StartMonitoringReturn = "throw" => StartMonitoringReturn' = "throw"

\* C38: a rejected RealTimeMonitor.initialize (wallets is not a list) leaves the
\* monitor as it was before the call: the monitored wallets, tokenAddress and
\* blockchain are unchanged, and a monitor that was uninitialized is still
\* uninitialized, so that a following startMonitoring() still fails with the
\* not-initialized error.
C38_RejectedInitializeChangesNothing == [][RejectedInitializeStep]_vars

\* initialize has been rejected, and startMonitoring() would not throw.
C38_Witness ==
    /\ ev.op = "initialize" /\ ev.result = "throw" /\ ~ev.wallets.isArray
    /\ StartMonitoringReturn = "false"

\* C39: EnhancedRealTimeMonitor holds at most one live WebSocket connection at
\* any time, and opens or re-opens one only while isMonitoring is true: over any
\* interleaving of startMonitoring, stopMonitoring, close events and the delayed
\* reconnect callbacks, stop followed at once by start included, no second
\* connection is opened alongside an existing one.
C39_AtMostOneLiveSocket ==
    /\ Cardinality(LiveSockets) <= 1
    /\ LiveSockets # {} => isMonitoring

\* The reconnect callback of a socket that stopMonitoring() closed has opened a
\* connection, monitoring having started again meanwhile.
C39_Witness ==
    /\ ev.op = "reconnect" /\ ev.result = "socket"
    /\ isMonitoring /\ websocketConnection \in LiveSockets
    /\ sockets[ev.net] = "gone"

====
